---- MODULE Spec2Model ----
(***************************************************************************)
(* A model of the dhtspider crawler: the KRPC dispatcher (krpc.py), the    *)
(* Crawler's inbound handlers and fetch gate (crawler.py), the             *)
(* MetadataFetcher session (fetcher.py), the torrent store (storage.py),   *)
(* the supervisor (run.py), the monolithic Spider (spider.py) and the      *)
(* routing table (kbucket.py).  One asyncio event loop runs everything: an *)
(* action is one callback of the loop, from the point a coroutine is       *)
(* resumed to its next suspension.                                         *)
(***************************************************************************)
EXTENDS Integers, Sequences, FiniteSets, TLC

\* ------------------------------------------------------------------ bounds

\* fetch_metadata tasks created over one run of the process.
MaxTasks == 2

\* fetch_metadata tasks created over one run when the peers are arbitrary.
MaxSessionTasks == 1

\* kbucket.K, the size of a bucket, scaled down from 8.
K == 2

\* kbucket.ID_BITS, the width of a node id, scaled down from 160.
ID_BITS == 3

\* config.FETCHER_SEMAPHORE_LIMIT, scaled down from 100 so that tasks contend.
FETCHER_SEMAPHORE_LIMIT == 1

\* get_peers_query calls over one run (each takes a fresh transaction id).
MaxTrans == 1

\* ------------------------------------------------------------------ values

None == "none"

\* Identifiers of torrents seen on the wire.
InfoHashes == {"h1", "h2", "h3"}

\* Byte strings of metadata are sequences of chunks; a piece carries one chunk.
Chunks == {"a", "b"}

\* The absent slot of metadata_pieces ([None] * num_pieces).
Empty == "-"

\* hashlib.sha1(...).digest(), collision free on the strings of the model.
SHA1(bytes) ==
    CASE bytes = <<"a">>      -> "h1"
      [] bytes = <<"a", "b">> -> "h2"
      [] bytes = <<"b">>      -> "h3"
      [] bytes = <<>>         -> "h0"
      [] OTHER                -> "hx"

\* bencoding.bdecode of reassembled metadata: a dictionary ("d1", "d2"), a
\* value that is no dictionary ("int"), or a decode error ("fail").
\* <<"a","b">> is a dictionary whose keys are not in sorted order.
Bdecode(bytes) ==
    CASE bytes = <<"a">>      -> "d1"
      [] bytes = <<"a", "b">> -> "d2"
      [] bytes = <<"b">>      -> "int"
      [] OTHER                -> "fail"

\* bencoding.bencode of a decoded dictionary: the canonical (sorted) form.
Bencode(value) ==
    CASE value = "d1" -> <<"a">>
      [] value = "d2" -> <<"b", "a">>
      [] OTHER        -> <<>>

IsDict(value) == value \in {"d1", "d2"}

\* ------------------------------------------------------------------- state

VARIABLES
    seen_info_hashes,        \* Crawler.seen_info_hashes: the identifiers the filter answers "in" for
    metadata_fetched_count,  \* Crawler.metadata_fetched_count
    files,                   \* the store directory: info_hash -> bytes of <hex>.torrent, or None
    sem,                     \* Crawler.fetcher_semaphore: free permits
    waiters,                 \* Crawler.fetcher_semaphore: tasks blocked in acquire, oldest first
    tasks,                   \* the fetch_metadata tasks created so far, in creation order
    transaction_id,          \* KRPC.transaction_id
    transactions,            \* KRPC.transactions: transaction id -> info_hash
    last,                    \* the datagram handled by the latest callback of the loop, or NoMsg
    sent,                    \* the datagrams sent by the latest callback of the loop
    spawned,                 \* the coroutines the latest callback passed to ensure_future
    lock,                    \* Storage.lock is held
    escaped,                 \* an exception left handle_message in the latest callback
    life,                    \* run.py: the phase of the process and the filter's snapshot file
    boot,                    \* Crawler.bootstrap: the list, the entry awaited, the queries sent
    spider,                  \* Spider.handle_query coroutines, in creation order
    wire,                    \* the latest frame a session handled and what it wrote in reply
    kbucket,                 \* a KBucket: its nodes before and after the latest add_node
    routing                  \* a RoutingTable: our_node_id, buckets in list order

vars == <<seen_info_hashes, metadata_fetched_count, files, sem, waiters, tasks,
          transaction_id, transactions, last, sent, spawned, lock, escaped,
          life, boot, spider, wire, kbucket, routing>>

crawlerVars == <<seen_info_hashes, metadata_fetched_count, files, lock>>
krpcVars == <<transaction_id, transactions>>
tableVars == <<kbucket, routing>>
mainVars == <<life, boot, spider, wire, tableVars>>

\* ------------------------------------------------------------ fetch tasks

\* Where a fetch_metadata task stands.
\*   scheduled  created by ensure_future, not yet run
\*   waiting    blocked in fetcher_semaphore.acquire
\*   connecting awaiting open_connection
\*   handshake  awaiting the peer's 68-byte handshake
\*   loop       awaiting a frame in _extended_handshake_loop
\*   closing    awaiting writer.wait_closed
\*   done       returned, permit released
InFlightPcs == {"connecting", "handshake", "loop", "closing"}

\* Crawler.fetch_metadata(info_hash, address) as created by ensure_future,
\* with the MetadataFetcher's locals.
NewTask(info_hash, ip, port, origin) ==
    [ih |-> info_hash, ip |-> ip, port |-> port, origin |-> origin,
     pc |-> "scheduled",
     writer |-> FALSE,             \* MetadataFetcher.writer is set (connection open)
     closed |-> FALSE,             \* writer.close() was called
     peer_ut_metadata_id |-> None, \* local of _extended_handshake_loop
     metadata_pieces |-> <<>>,     \* local of _extended_handshake_loop
     callbacks |-> 0,              \* calls of on_metadata_callback by this session
     delivered |-> <<>>,           \* metadata_pieces when on_metadata_callback was called
     exit |-> None]                \* how fetch() left its try block, until it returns

TaskIds == 1..Len(tasks)

InFlight == {t \in TaskIds : tasks[t].pc \in InFlightPcs}

Set(t, field, value) == [tasks EXCEPT ![t][field] = value]

\* ------------------------------------------------- the fetcher semaphore
\* asyncio.Semaphore as used by "async with self.fetcher_semaphore".

\* A gate that never blocks.
LockedNever(value, queue) == FALSE

\* Semaphore.locked(): no permit free, or somebody already waits.
Locked(value, queue) == value = 0 \/ queue # <<>>

\* A release that gives no permit back.
ReleaseLeak(value) == value

\* Semaphore.release(): one more permit (the oldest waiter is woken).
Release(value) == value + 1

\* acquire() taking a permit.
Take(value) == value - 1

\* ------------------------------------------------- the torrent store

\* A path of the store directory that names no file.
NoFile == <<>>

\* A store that appends to an existing file instead of replacing it.
SaveAppend(store, info_hash, metadata, writeOk) ==
    IF writeOk THEN [store EXCEPT ![info_hash] = @ \o Bencode(metadata)] ELSE store

\* Storage.save(info_hash, metadata): the file's bytes after the call.  A
\* failed write (writeOk = FALSE) is printed and swallowed.
Save(store, info_hash, metadata, writeOk) ==
    IF writeOk THEN [store EXCEPT ![info_hash] = Bencode(metadata)] ELSE store

\* A store whose lock stays held when the write failed.
LockAfterSaveHeld(writeOk) == ~writeOk

\* Storage.lock once save has returned: "async with self.lock" releases it
\* on the way out of its body, which swallows a failed write itself.
LockAfterSave(writeOk) == FALSE

\* ------------------------------------------------- the fetcher session

PIECE_LEN == 16384

\* num_pieces = (metadata_size + 16383) // 16384
NumPieces(metadata_size) == (metadata_size + (PIECE_LEN - 1)) \div PIECE_LEN

\* The peer's handshake passes when bytes 28..47 carry our info_hash.
HandshakeValid(reply_hash, info_hash) == reply_hash = info_hash

\* all(p is not None for p in metadata_pieces)
AllFilled(pieces) == \A i \in 1..Len(pieces) : pieces[i] # Empty

\* A check that accepts any digest.
HashValidAlways(pieces, info_hash) == TRUE

\* hashlib.sha1(full_metadata).digest() == self.info_hash
HashValid(pieces, info_hash) == SHA1(pieces) = info_hash

\* metadata_pieces[piece_index] raises IndexError: Python indexes from the
\* end for a negative index, and fails below -len.
IndexError(pieces, piece_index) == piece_index < 0 /\ Len(pieces) + piece_index < 0

\* if piece_index < len(metadata_pieces): metadata_pieces[piece_index] = piece_data
StorePiece(pieces, piece_index, piece_data) ==
    IF piece_index >= Len(pieces) THEN pieces
    ELSE IF piece_index >= 0 THEN [pieces EXCEPT ![piece_index + 1] = piece_data]
    ELSE [pieces EXCEPT ![Len(pieces) + piece_index + 1] = piece_data]

\* What one pass of the loop yields: the locals after it, how it leaves the
\* loop (None: it does not, the next frame is awaited) and the value handed to
\* on_metadata_callback (None when it is not called).
\*   "frame"     a frame that raises while it is decoded
\*   "hash"      the assembly is complete and its SHA-1 is not info_hash
\*   "decode"    the assembly has the right SHA-1 and bdecode rejects it
\*   "callback"  on_metadata_callback was awaited, then "return"
\*   "request"   _request_metadata_piece raises while it builds a request
Pass(s, exit, callback) == [s |-> s, exit |-> exit, callback |-> callback]

\* Lines 98-103 without the "return" that follows the callback.
CompletedNoReturn(s) ==
    IF ~HashValid(s.metadata_pieces, s.ih) THEN Pass(s, "hash", None)
    ELSE IF Bdecode(s.metadata_pieces) = "fail" THEN Pass(s, "decode", None)
    ELSE Pass(s, None, Bdecode(s.metadata_pieces))

\* Lines 98-103: the assembly s.metadata_pieces has every slot filled.
Completed(s) ==
    IF ~HashValid(s.metadata_pieces, s.ih) THEN Pass(s, "hash", None)
    ELSE IF Bdecode(s.metadata_pieces) = "fail" THEN Pass(s, "decode", None)
    ELSE Pass(s, "callback", Bdecode(s.metadata_pieces))

\* An announced ut_metadata id that is an integer above 255.
WideId == "300"

\* peer_ut_metadata_id.to_bytes(1, 'big') returns for an id of one byte and
\* raises OverflowError for a wider one.
FitsByte(id) == id # WideId

\* if peer_ut_metadata_id and metadata_size: the handshake names both.
Negotiates(f) == f.ut_metadata # None /\ f.metadata_size # 0

\* One pass of the "while True" body of _extended_handshake_loop on frame f,
\* for a session with locals s.
LoopBody(s, f) ==
    CASE f.kind = "keepalive" -> Pass(s, None, None)
      [] f.kind = "other" -> Pass(s, None, None)
      [] f.kind = "ext_handshake" ->
            IF ~f.decodable THEN Pass(s, "frame", None)
            ELSE LET s2 == [s EXCEPT
                              !.peer_ut_metadata_id = f.ut_metadata,
                              !.metadata_pieces =
                                  IF Negotiates(f)
                                  THEN [i \in 1..NumPieces(f.metadata_size) |-> Empty]
                                  ELSE @]
                 IN  IF Negotiates(f) /\ ~FitsByte(f.ut_metadata)
                     THEN Pass(s2, "request", None)
                     ELSE Pass(s2, None, None)
      [] f.kind = "ext_data" ->
            IF s.peer_ut_metadata_id = None \/ f.sub # s.peer_ut_metadata_id
            THEN Pass(s, None, None)
            ELSE IF ~f.header \/ IndexError(s.metadata_pieces, f.piece)
            THEN Pass(s, "frame", None)
            ELSE LET s2 == [s EXCEPT !.metadata_pieces =
                                       StorePiece(@, f.piece, f.data)] IN
                 IF AllFilled(s2.metadata_pieces) THEN Completed(s2)
                 ELSE Pass(s2, None, None)

\* A request that goes to sub-id 0 whatever the peer announced.
RequestToZero(id, piece_index) == [sub |-> "0", msg_type |-> 0, piece |-> piece_index]

\* _request_metadata_piece(peer_ut_metadata_id, piece_index): the message
\* written, b'\x14' + the id as one byte + bencode({msg_type: 0, piece: i}).
Request(id, piece_index) == [sub |-> id, msg_type |-> 0, piece |-> piece_index]

\* Lines 82-86: the requests one pass writes on frame f, in the order of
\* writing.  writer.write buffers them; the next frame is read after the loop.
RequestsWritten(f) ==
    IF f.kind = "ext_handshake" /\ f.decodable /\ Negotiates(f) /\ FitsByte(f.ut_metadata)
    THEN [i \in 1..NumPieces(f.metadata_size) |-> Request(f.ut_metadata, i - 1)]
    ELSE <<>>

\* The frames a peer sends in the loop.
HandshakeFrames(ids, sizes) ==
    [kind : {"ext_handshake"}, decodable : {TRUE}, ut_metadata : ids, metadata_size : sizes]

DataFrames(subs, types, indices) ==
    [kind : {"ext_data"}, sub : subs, header : {TRUE}, msg_type : types,
     piece : indices, data : Chunks]

\* A peer that serves one-piece metadata, right or wrong.
BasicFrames ==
    HandshakeFrames({"1"}, {PIECE_LEN}) \cup DataFrames({"1"}, {1}, {0})

\* Any peer: frames that are ignored, handshakes that cannot be decoded or
\* lack ut_metadata or metadata_size, repeated handshakes, data frames for
\* another sub-id, of any msg_type, with an unreadable header, with an index
\* out of range or negative.
AllFrames ==
    {[kind |-> "keepalive"], [kind |-> "other"],
     [kind |-> "ext_handshake", decodable |-> FALSE, ut_metadata |-> None,
      metadata_size |-> 0]}
    \cup HandshakeFrames({None, "1", "2"}, {0, 1, PIECE_LEN + 1})
    \cup DataFrames({"1", "2"}, {0, 1, 2}, {-1, 0, 1, 2})
    \cup {[kind |-> "ext_data", sub |-> "1", header |-> FALSE, msg_type |-> 1,
           piece |-> 0, data |-> "a"]}

\* A peer seen from the wire: keep-alives, handshakes that announce one or
\* two pieces, an id of one byte or a wider one, or no size, and messages of
\* every msg_type for either piece on the announced sub-id or another.
WireFrames ==
    {[kind |-> "keepalive"]}
    \cup HandshakeFrames({"1", WideId}, {PIECE_LEN, PIECE_LEN + 1})
    \cup HandshakeFrames({"1"}, {0})
    \cup [kind : {"ext_data"}, sub : {"1"}, header : {TRUE}, msg_type : {0, 1, 2},
          piece : {0, 1}, data : {"a", ""}]
    \cup [kind : {"ext_data"}, sub : {"2"}, header : {TRUE}, msg_type : {1},
          piece : {0}, data : {"a"}]

\* ------------------------------------------------- KRPC and the handlers

\* A decoded bencode dictionary is a function on its keys.
Has(d, key) == key \in DOMAIN d

\* The empty dictionary.
EmptyDict == [k \in {} |-> None]

\* dict.get(key, default)
Get(d, key, default) == IF Has(d, key) THEN d[key] ELSE default

\* Python truth of a byte string or of None: empty and None are false.
Truthy(v) == v \notin {None, ""}

\* A port test that lets every value pass.
TruthyIntAlways(v) == TRUE

\* Python truth of an integer argument or of None.
TruthyInt(v) == v \notin {None, "0"}

\* Crawler.node_id, as <<first 19 bytes, last byte>>.
node_id == <<"own19", "ownL">>

\* The methods class KRPC defines; calling any other raises AttributeError.
KRPCMethods ==
    {"set_handler", "_get_transaction_id", "ping_query", "find_node_query",
     "get_peers_query", "ping_response", "handle_message", "handle_response",
     "handle_query", "handle_error"}

\* A responder that always answers under its own id.
FakeNodeIdOwn(target_id) == node_id

\* Crawler._fake_node_id(target_id)
FakeNodeId(target_id) ==
    IF target_id # <<>> THEN <<target_id[1], node_id[2]>> ELSE node_id

\* KRPC.ping_response(trans_id, sender_id), with the address it is sent to.
PingResponse(trans_id, sender_id, address) ==
    [to |-> address, t |-> trans_id, y |-> "r", r |-> [id |-> sender_id]]

\* What a handler did before it returned or raised: the datagrams it sent and
\* the coroutines it passed to ensure_future, in order.
Effect(raised, datagrams, coroutines) ==
    [raised |-> raised, sent |-> datagrams, spawned |-> coroutines]

Nothing == Effect(FALSE, <<>>, <<>>)
Raised == Effect(TRUE, <<>>, <<>>)

\* self.fetch_metadata(info_hash, (ip, port)), with the handler that made it.
FetchMetadata(info_hash, ip, port, origin) ==
    [fn |-> "fetch_metadata", ih |-> info_hash, ip |-> ip, port |-> port,
     origin |-> origin]

IsFetch(coroutine) == coroutine.fn = "fetch_metadata"

\* Crawler.handle_ping_query
HandlePingQuery(trans_id, args, address) ==
    IF ~Has(args, "id") THEN Raised
    ELSE Effect(FALSE,
                <<PingResponse(trans_id, FakeNodeId(args["id"]), address)>>,
                <<>>)

\* Crawler.handle_find_node_query: self.krpc.find_node_response is called
\* after args[b'id'] is read.
HandleFindNodeQuery(trans_id, args, address) ==
    IF ~Has(args, "id") THEN Raised
    ELSE IF "find_node_response" \notin KRPCMethods THEN Raised
    ELSE Effect(FALSE,
                <<[to |-> address, t |-> trans_id, y |-> "r",
                   r |-> [id |-> FakeNodeId(args["id"]), nodes |-> ""]]>>,
                <<>>)

\* Crawler.handle_get_peers_query: self.krpc.get_peers_response is called
\* after args[b'info_hash'] and args[b'id'] are read.
HandleGetPeersQuery(trans_id, args, address) ==
    IF ~Has(args, "info_hash") \/ ~Has(args, "id") THEN Raised
    ELSE IF "get_peers_response" \notin KRPCMethods THEN Raised
    ELSE Effect(FALSE,
                <<[to |-> address, t |-> trans_id, y |-> "r",
                   r |-> [id |-> FakeNodeId(args["id"]), token |-> "some_token",
                          nodes |-> ""]]>>,
                <<[fn |-> "on_get_peers", info_hash |-> args["info_hash"],
                   addr |-> address]>>)

\* A pre-check that does not consult the filter.
SkipAnnounceUnseen(info_hash, seen) == ~Truthy(info_hash)

\* if not info_hash or info_hash in self.seen_info_hashes: return
SkipAnnounce(info_hash, seen) == ~Truthy(info_hash) \/ info_hash \in seen

\* port = args.get(b'port') if args.get(b'implied_port', 1) == 0 else address[1]
PeerPort(args, address) ==
    IF Get(args, "implied_port", "1") = "0" THEN Get(args, "port", None) ELSE address[2]

\* An announce handler that answers before it consults the filter (the order
\* of Spider.handle_announce_peer in spider.py).
HandleAnnouncePeerQueryReplyFirst(trans_id, args, address, seen) ==
    LET info_hash == Get(args, "info_hash", None)
        port == PeerPort(args, address)
    IN  IF ~Has(args, "id") THEN Raised
        ELSE LET response == PingResponse(trans_id, FakeNodeId(args["id"]), address) IN
             IF SkipAnnounce(info_hash, seen) \/ ~TruthyInt(port)
             THEN Effect(FALSE, <<response>>, <<>>)
             ELSE Effect(FALSE, <<response>>,
                         <<FetchMetadata(info_hash, address[1], port, "announce_peer"),
                           [fn |-> "on_announce_peer", info_hash |-> info_hash,
                            addr |-> address, peer_addr |-> <<address[1], port>>]>>)

\* Crawler.handle_announce_peer_query
HandleAnnouncePeerQuery(trans_id, args, address, seen) ==
    LET info_hash == Get(args, "info_hash", None)
        port == PeerPort(args, address)
    IN  IF SkipAnnounce(info_hash, seen) THEN Nothing
        ELSE IF ~Has(args, "id") THEN Raised
        ELSE LET response == PingResponse(trans_id, FakeNodeId(args["id"]), address) IN
             IF ~TruthyInt(port) THEN Effect(FALSE, <<response>>, <<>>)
             ELSE Effect(FALSE, <<response>>,
                         <<FetchMetadata(info_hash, address[1], port, "announce_peer"),
                           [fn |-> "on_announce_peer", info_hash |-> info_hash,
                            addr |-> address, peer_addr |-> <<address[1], port>>]>>)

\* KRPC.handle_query
HandleQuery(msg, address, seen) ==
    LET trans_id == Get(msg, "t", None)
        query_type == Get(msg, "q", None)
        args == Get(msg, "a", EmptyDict)
    IN  IF ~Truthy(trans_id) THEN Nothing
        ELSE CASE query_type = "ping" -> HandlePingQuery(trans_id, args, address)
               [] query_type = "find_node" -> HandleFindNodeQuery(trans_id, args, address)
               [] query_type = "get_peers" -> HandleGetPeersQuery(trans_id, args, address)
               [] query_type = "announce_peer" ->
                      HandleAnnouncePeerQuery(trans_id, args, address, seen)
               [] OTHER -> Nothing

\* A "nodes" value that is no byte string but an integer, in the place of
\* the decoded list.
IntNodes == <<[type |-> "int"]>>

\* utils.decode_nodes(nodes) raises: len(nodes) is a TypeError for an
\* integer, and only OSError and struct.error are caught inside.
DecodeNodesRaises(nodes) == nodes = IntNodes

\* Crawler.handle_find_node_response: decode_nodes(args[b'nodes']), then one
\* self.krpc.ping(...) per decoded node, each inside "try ... except
\* Exception: pass".
HandleFindNodeResponse(trans_id, args, address) ==
    IF DecodeNodesRaises(args["nodes"]) THEN Raised
    ELSE IF "ping" \notin KRPCMethods THEN Nothing
    ELSE Effect(FALSE,
                [i \in 1..Len(args["nodes"]) |->
                    [to |-> <<args["nodes"][i].ip, args["nodes"][i].port>>,
                     y |-> "q", q |-> "ping",
                     a |-> [id |-> FakeNodeId(args["nodes"][i].id)]]],
                <<>>)

\* A compact peer is a byte string: a sequence of bytes.
\* socket.inet_ntoa(packed): the dotted quad of exactly four bytes.
InetNtoa(packed) ==
    ToString(packed[1]) \o "." \o ToString(packed[2]) \o "." \o
    ToString(packed[3]) \o "." \o ToString(packed[4])

RECURSIVE IntFromBytes(_)
\* int.from_bytes(bytes, 'big'): zero for no bytes, any length accepted.
IntFromBytes(bytes) ==
    IF bytes = <<>> THEN 0
    ELSE 256 * IntFromBytes(SubSeq(bytes, 1, Len(bytes) - 1)) + bytes[Len(bytes)]

\* socket.inet_ntoa(peer[:4]) accepts exactly four bytes: peer[:4] has them
\* when the peer string is at least four bytes long.
PeerDecodes(peer) == Len(peer) >= 4

\* ip = socket.inet_ntoa(peer[:4])
PeerIp(peer) == InetNtoa(SubSeq(peer, 1, 4))

\* port = int.from_bytes(peer[4:], 'big')
PeerPortOf(peer) == ToString(IntFromBytes(SubSeq(peer, 5, Len(peer))))

\* A handler that stops after the first peer.
PeerFetchesFirst(info_hash, peers) ==
    IF peers = <<>> \/ ~PeerDecodes(Head(peers)) THEN <<>>
    ELSE <<FetchMetadata(info_hash, PeerIp(Head(peers)), PeerPortOf(Head(peers)),
                         "get_peers")>>

RECURSIVE PeerFetches(_, _)
\* The fetches handle_get_peers_response schedules for peers, in order: a
\* peer whose decoding raises is skipped.
PeerFetches(info_hash, peers) ==
    IF peers = <<>> THEN <<>>
    ELSE (IF PeerDecodes(Head(peers))
          THEN <<FetchMetadata(info_hash, PeerIp(Head(peers)), PeerPortOf(Head(peers)),
                               "get_peers")>>
          ELSE <<>>)
         \o PeerFetches(info_hash, Tail(peers))

\* The bencoded value under b'values': a list of byte strings, or a value
\* that has no len() (an integer).
ListValue(items) == [type |-> "list", items |-> items]
IntValue == [type |-> "int", items |-> <<>>]

\* Crawler.handle_get_peers_response: len(peers) is evaluated for the log
\* line before the loop and raises TypeError for an integer.
HandleGetPeersResponse(info_hash, args, address) ==
    IF args["values"].type # "list" THEN Raised
    ELSE Effect(FALSE, <<>>, PeerFetches(info_hash, args["values"].items))

\* A dispatcher that routes values without asking for a transaction.
HandleResponseAnyValues(msg, address, table) ==
    LET trans_id == Get(msg, "t", None)
        args == Get(msg, "r", EmptyDict)
        effect ==
            IF Has(args, "nodes") THEN HandleFindNodeResponse(trans_id, args, address)
            ELSE IF Has(args, "values")
            THEN HandleGetPeersResponse(Get(table, trans_id, "h1"), args, address)
            ELSE Nothing
    IN  IF ~Truthy(trans_id) THEN [effect |-> Nothing, table |-> table]
        ELSE [effect |-> effect,
              table |-> IF effect.raised THEN table
                        ELSE [k \in DOMAIN table \ {trans_id} |-> table[k]]]

\* KRPC.handle_response: the handler's effect and the transaction table after.
HandleResponse(msg, address, table) ==
    LET trans_id == Get(msg, "t", None)
        args == Get(msg, "r", EmptyDict)
        effect ==
            IF Has(args, "nodes") THEN HandleFindNodeResponse(trans_id, args, address)
            ELSE IF Has(args, "values") /\ Has(table, trans_id)
            THEN HandleGetPeersResponse(table[trans_id], args, address)
            ELSE Nothing
    IN  IF ~Truthy(trans_id) THEN [effect |-> Nothing, table |-> table]
        ELSE [effect |-> effect,
              table |-> IF effect.raised THEN table
                        ELSE [k \in DOMAIN table \ {trans_id} |-> table[k]]]

\* What reaches Node.datagram_received: bytes bdecode rejects, a bencoded
\* value that is no dictionary, or a dictionary.
NoMsg == [form |-> "none"]

\* A handle_message without its except clause.
ExceptNothing(raised) == raised

\* KRPC.handle_message's "try: ... except Exception: pass": whether an
\* exception raised under it still leaves handle_message.
ExceptPass(raised) == FALSE

\* KRPC.handle_message(data, address): the handler's effect and the table
\* after.  handle_error does nothing.
HandleMessage(m, seen, table) ==
    IF m.form # "dict" THEN [effect |-> Nothing, table |-> table]
    ELSE LET msg_type == Get(m.msg, "y", None) IN
         CASE msg_type = "r" -> HandleResponse(m.msg, m.addr, table)
           [] msg_type = "q" -> [effect |-> HandleQuery(m.msg, m.addr, seen), table |-> table]
           [] OTHER -> [effect |-> Nothing, table |-> table]

\* KRPC._get_transaction_id
GetTransactionId(counter) == ToString(counter + 1)

\* ------------------------------------------------- Crawler: the fetch gate

\* Crawler.on_metadata_received(info_hash, metadata), which runs to its end
\* without suspending: save takes the store lock, which is free, and holds it
\* over synchronous code only (with the lock held, save would suspend in
\* "async with").  metadata.get raises for a value that is no dictionary; the
\* except clause logs it and nothing is stored.
OnMetadataReceived(info_hash, metadata, writeOk) ==
    IF ~IsDict(metadata)
    THEN UNCHANGED crawlerVars
    ELSE /\ ~lock
         /\ lock' = LockAfterSave(writeOk)
         /\ files' = Save(files, info_hash, metadata, writeOk)
         /\ metadata_fetched_count' = metadata_fetched_count + 1
         /\ seen_info_hashes' = seen_info_hashes \cup {info_hash}

\* A callback of the loop that handles no datagram.
NoDatagram == last' = NoMsg /\ sent' = <<>> /\ spawned' = <<>> /\ escaped' = FALSE

\* fetch_metadata runs for the first time: "async with self.fetcher_semaphore".
\* With a permit free it builds the MetadataFetcher and fetch() awaits
\* open_connection; otherwise it joins the waiters.
StartTask(t) ==
    /\ tasks[t].pc = "scheduled"
    /\ IF Locked(sem, waiters)
       THEN /\ waiters' = Append(waiters, t)
            /\ tasks' = Set(t, "pc", "waiting")
            /\ sem' = sem
       ELSE /\ sem' = Take(sem)
            /\ tasks' = Set(t, "pc", "connecting")
            /\ waiters' = waiters
    /\ NoDatagram
    /\ UNCHANGED <<crawlerVars, krpcVars, mainVars>>

\* The oldest waiter is resumed by a release and takes the permit.
WakeTask(t) ==
    /\ waiters # <<>>
    /\ t = Head(waiters)
    /\ sem > 0
    /\ sem' = Take(sem)
    /\ waiters' = Tail(waiters)
    /\ tasks' = Set(t, "pc", "connecting")
    /\ NoDatagram
    /\ UNCHANGED <<crawlerVars, krpcVars, mainVars>>

\* open_connection fails or times out after 5 s: fetch() swallows it, no
\* writer exists, fetch_metadata leaves the "async with" and ends.
ConnectFail(t) ==
    /\ tasks[t].pc = "connecting"
    /\ tasks' = Set(t, "pc", "done")
    /\ sem' = Release(sem)
    /\ NoDatagram
    /\ UNCHANGED <<crawlerVars, krpcVars, waiters, mainVars>>

\* open_connection succeeds: _handshake writes our handshake and awaits 68 bytes.
ConnectOk(t) ==
    /\ tasks[t].pc = "connecting"
    /\ tasks' = [tasks EXCEPT ![t].pc = "handshake", ![t].writer = TRUE]
    /\ NoDatagram
    /\ UNCHANGED <<crawlerVars, krpcVars, sem, waiters, mainVars>>

\* A finally clause that awaits wait_closed without closing the writer.
FinallyLeavesOpen(task, exit) ==
    [task EXCEPT !.pc = "closing", !.exit = exit,
                 !.peer_ut_metadata_id = None, !.metadata_pieces = <<>>]

\* fetch()'s finally clause: writer.close(), then await writer.wait_closed().
\* _extended_handshake_loop has returned or raised by then: its locals are gone.
Finally(task, exit) ==
    [task EXCEPT !.pc = "closing", !.closed = TRUE, !.exit = exit,
                 !.peer_ut_metadata_id = None, !.metadata_pieces = <<>>]

\* The peer's handshake arrives carrying reply_hash.  A match sends the
\* extension handshake and enters the message loop; a mismatch raises.
HandshakeReply(t, reply_hash) ==
    /\ tasks[t].pc = "handshake"
    /\ tasks' = [tasks EXCEPT ![t] =
                   IF HandshakeValid(reply_hash, @.ih)
                   THEN [@ EXCEPT !.pc = "loop"]
                   ELSE Finally(@, "handshake")]
    /\ NoDatagram
    /\ UNCHANGED <<crawlerVars, krpcVars, sem, waiters, mainVars>>

\* A read times out, or the peer closes or resets the connection
\* (TimeoutError, IncompleteReadError): the session ends.
ReadFails(t) ==
    /\ tasks[t].pc \in {"handshake", "loop"}
    /\ tasks' = [tasks EXCEPT ![t] = Finally(@, "read")]
    /\ NoDatagram
    /\ UNCHANGED <<crawlerVars, krpcVars, sem, waiters, mainVars>>

\* A frame arrives in the message loop: what the pass over it does to the
\* session and, through on_metadata_callback, to the crawler.
HandleFrame(t, f) ==
    /\ tasks[t].pc = "loop"
    /\ LET r == LoopBody(tasks[t], f) IN
       /\ IF r.callback # None
          THEN \E writeOk \in BOOLEAN : OnMetadataReceived(tasks[t].ih, r.callback, writeOk)
          ELSE UNCHANGED crawlerVars
       /\ tasks' = [tasks EXCEPT ![t] =
                      LET s == IF r.callback # None
                               THEN [r.s EXCEPT !.callbacks = @ + 1,
                                                !.delivered = r.s.metadata_pieces]
                               ELSE r.s
                      IN IF r.exit = None THEN s ELSE Finally(s, r.exit)]
    /\ NoDatagram
    /\ UNCHANGED <<krpcVars, sem, waiters, life, boot, spider, tableVars>>

\* A frame arrives in the message loop, the connection unobserved.
RecvFrame(t, f) == HandleFrame(t, f) /\ UNCHANGED wire

\* No frame has been handled yet.
NoWire == [task |-> 0]

\* What the pass of session t over frame f looks like from the connection:
\* the frame, the locals of the loop before and after the pass, whether the
\* pass found the assembly complete, and the requests written.
Capture(t, f) ==
    LET r == LoopBody(tasks[t], f) IN
    [task |-> t, frame |-> f,
     negotiated |-> tasks[t].peer_ut_metadata_id,
     before |-> tasks[t].metadata_pieces,
     after |-> r.s.metadata_pieces,
     complete |-> r.exit \in {"hash", "decode", "callback"},
     written |-> RequestsWritten(f)]

\* A frame arrives in the message loop, the connection observed.
RecvFrameOnWire(t, f) == HandleFrame(t, f) /\ wire' = Capture(t, f)

\* wait_closed returns (or raises, which is swallowed): fetch() returns and
\* fetch_metadata leaves the "async with", releasing its permit.
CloseDone(t) ==
    /\ tasks[t].pc = "closing"
    /\ tasks' = [tasks EXCEPT ![t].pc = "done", ![t].exit = None]
    /\ sem' = Release(sem)
    /\ NoDatagram
    /\ UNCHANGED <<crawlerVars, krpcVars, waiters, mainVars>>

\* ------------------------------------------------- datagrams

\* The address datagrams come from: (ip, UDP source port).
Sender == <<"1.2.3.4", "1234">>

\* A sender's node id, as <<first 19 bytes, last byte>>.
SenderId == <<"snd19", "sndL">>

\* The dictionary d cut to the keys in keys.
Only(d, keys) == [k \in keys |-> d[k]]

Datagram(msg) == [form |-> "dict", addr |-> Sender, msg |-> msg]

\* A well-formed announce_peer query with an explicit port.
Announce(h) ==
    Datagram([t |-> "t1", y |-> "q", q |-> "announce_peer",
              a |-> [id |-> SenderId, info_hash |-> h, port |-> "5678",
                     implied_port |-> "0"]])

\* The identifiers announced to the whole crawler: "h1" is the hash of a
\* dictionary, "h3" of a bencoded value that is no dictionary.
CrawlHashes == {"h1", "h3"}

Announces == {Announce(h) : h \in CrawlHashes}

\* Replies with values: one compact peer, answering transaction "1".
GoodPeer == <<5, 6, 7, 8, 26, 225>>

PeerLists == {ListValue(<<GoodPeer>>)}

GetPeersReplies ==
    {Datagram([t |-> "1", y |-> "r", r |-> [id |-> SenderId, values |-> v]]) :
        v \in PeerLists}

\* The datagrams of the whole-crawler specification.
Datagrams == Announces \cup GetPeersReplies

\* Argument dictionaries: every subset of the keys, an explicit port that is
\* zero or not, implied_port zero or not.
ArgDicts(keys) ==
    {Only(a, k) : k \in SUBSET keys,
                  a \in [id : {SenderId}, info_hash : CrawlHashes,
                         port : {"0", "5678"}, implied_port : {"0", "1"}]}

\* Queries of every kind, known or not, with and without a transaction id.
Queries ==
    LET full(q, a) == [t |-> "t1", y |-> "q", q |-> q, a |-> a] IN
    {Datagram(Only(full(q, a), k)) :
        q \in {"ping", "find_node", "vote"}, a \in ArgDicts({"id"}),
        k \in {{"t", "y", "q", "a"}, {"y", "q", "a"}}}
    \cup {Datagram(Only(full("get_peers", a), k)) :
        a \in ArgDicts({"id", "info_hash"}),
        k \in {{"t", "y", "q", "a"}, {"y", "q", "a"}}}
    \cup {Datagram(Only(full("announce_peer", a), k)) :
        a \in ArgDicts({"id", "info_hash", "port", "implied_port"}),
        k \in {{"t", "y", "q", "a"}, {"y", "q", "a"}}}

\* Compact node lists, decoded.
NodeLists == {<<>>, <<[id |-> SenderId, ip |-> "9.9.9.9", port |-> "6881"]>>}

\* Values of every shape: no peer, peers of 3, 4, 5, 6 and 7 bytes, two
\* peers of which either may be malformed, and a value that is no list.
PeerStrings == {SubSeq(<<5, 6, 7, 8, 1, 2, 3>>, 1, n) : n \in {3, 4, 5, 7}} \cup {GoodPeer}

ValueShapes ==
    {ListValue(<<>>), IntValue}
    \cup {ListValue(<<p>>) : p \in PeerStrings}
    \cup {ListValue(<<p, q>>) : p, q \in {GoodPeer, <<5, 6, 7>>, <<5, 6, 7, 8, 1>>}}

\* Replies: to a registered transaction ("1") or not, with nodes, values,
\* both or neither.
Replies ==
    LET full(t, n, v) == [t |-> t, y |-> "r", r |-> [id |-> SenderId, nodes |-> n, values |-> v]] IN
    {Datagram([full(t, n, v) EXCEPT !.r = Only(@, k)]) :
        t \in {"1", "t9"}, n \in NodeLists,
        v \in ValueShapes,
        k \in {{"id"}, {"id", "nodes"}, {"id", "values"}, {"id", "nodes", "values"}}}

\* Datagrams that are neither query nor reply: bytes bdecode rejects, a
\* bencoded value that is no dictionary, an error message, a message without y.
Strays ==
    {[form |-> "undecodable"], [form |-> "nondict"],
     Datagram([t |-> "t1", y |-> "e"]), Datagram([t |-> "t1"])}

\* What may come back for the transactions "1" and "2": a reply with one
\* peer, with a peer and nodes, or with neither, and an error message.
TransactionReplies ==
    {Datagram([t |-> t, y |-> "r", r |-> r]) :
        t \in {"1", "2"},
        r \in {[id |-> SenderId, values |-> ListValue(<<GoodPeer>>)],
               [id |-> SenderId, values |-> ListValue(<<GoodPeer>>), nodes |-> <<>>],
               [id |-> SenderId]}}
    \cup {Datagram([t |-> t, y |-> "e"]) : t \in {"1", "2"}}

\* Replies to the transactions "1" and "2" that carry nodes (none, one, or
\* an integer in their place), with or without values, and replies with
\* values alone.
NodesReplies ==
    {Datagram([t |-> t, y |-> "r", r |-> r]) :
        t \in {"1", "2"},
        r \in [id : {SenderId}, nodes : NodeLists \cup {IntNodes}]
              \cup [id : {SenderId}, nodes : NodeLists \cup {IntNodes},
                    values : {ListValue(<<GoodPeer>>)}]
              \cup {[id |-> SenderId, values |-> ListValue(<<GoodPeer>>)]}}

\* ------------------------------------------------- actions of the UDP side

\* Node.datagram_received -> KRPC.handle_message: the handler runs to its
\* end; the fetches it passed to ensure_future become tasks.
Receive(m, cap) ==
    LET r == HandleMessage(m, seen_info_hashes, transactions)
        fetches == SelectSeq(r.effect.spawned, IsFetch)
    IN
    /\ Len(tasks) + Len(fetches) <= cap
    /\ tasks' = tasks \o [i \in 1..Len(fetches) |->
                            NewTask(fetches[i].ih, fetches[i].ip, fetches[i].port,
                                    fetches[i].origin)]
    /\ transactions' = r.table
    /\ last' = m
    /\ sent' = r.effect.sent
    /\ spawned' = r.effect.spawned
    /\ escaped' = ExceptPass(r.effect.raised)
    /\ UNCHANGED <<crawlerVars, sem, waiters, transaction_id, mainVars>>

\* KRPC.get_peers_query(info_hash): registers the transaction.  It is the one
\* operation that stores an info_hash in KRPC.transactions; the Crawler itself
\* sends find_node queries only, which register nothing.
GetPeersQueryUpTo(info_hash, calls) ==
    /\ transaction_id < calls
    /\ transaction_id' = transaction_id + 1
    /\ transactions' = [k \in DOMAIN transactions \cup {GetTransactionId(transaction_id)} |->
                          IF k = GetTransactionId(transaction_id) THEN info_hash
                          ELSE transactions[k]]
    /\ NoDatagram
    /\ UNCHANGED <<crawlerVars, sem, waiters, tasks, mainVars>>

GetPeersQuery(info_hash) == GetPeersQueryUpTo(info_hash, MaxTrans)

\* ------------------------------------------------- the filter's snapshot file

\* BLOOM_FILTER_FILE when no such file exists, and after a write that was
\* cut short (open(..., 'wb') has truncated it by then).
NoSnapshot == [form |-> "absent"]
Truncated == [form |-> "truncated"]

\* A snapshot of a fresh filter.
ToFileFresh(filter) == [form |-> "filter", members |-> {}]

\* BloomFilter.tofile(f): the file holds the filter's bit array.
ToFile(filter) == [form |-> "filter", members |-> filter]

\* BloomFilter.fromfile(f)
FromFile(file) == file.members

\* The file a process has started with: run.py loads the filter from it, and
\* builds an empty filter when there is none.
Snapshot(filter) == IF filter = {} THEN NoSnapshot ELSE ToFile(filter)

\* run.py load_bloom_filter: FileNotFoundError alone is caught.
LoadBloomFilter(file) ==
    CASE file = NoSnapshot -> [ok |-> TRUE, filter |-> {}]
      [] file = Truncated  -> [ok |-> FALSE, filter |-> {}]
      [] OTHER             -> [ok |-> TRUE, filter |-> FromFile(file)]

\* ------------------------------------------------- run.py: shutdown

\* How the snapshot write of Crawler.close ends: written, open() failed (the
\* file is as it was), or tofile failed after open() truncated it.
WriteOutcomes == {"ok", "open_fails", "write_fails"}

\* main()'s finally clause: crawler.close() writes the filter in place and
\* swallows a failure, storage.close() does nothing, transport.close() ends
\* the delivery of datagrams.  No task is cancelled or awaited here:
\* Crawler.start kept no handle of its loops, and fetch sessions stay as
\* they are.
Close(outcome) ==
    /\ life.phase = "running"
    /\ life' = [phase |-> "closed",
                file |-> CASE outcome = "ok" -> ToFile(seen_info_hashes)
                           [] outcome = "open_fails" -> life.file
                           [] OTHER -> Truncated,
                at_close |-> seen_info_hashes,
                written |-> (outcome = "ok")]
    /\ NoDatagram
    /\ UNCHANGED <<crawlerVars, krpcVars, sem, waiters, tasks, boot, spider, wire, tableVars>>

\* A task that receives CancelledError where it is suspended.  fetch()'s
\* "except Exception" does not catch it; its finally clause closes an open
\* writer and awaits wait_closed.
Cancelled(task) ==
    CASE task.pc \in {"scheduled", "waiting", "connecting", "closing"} ->
             [task EXCEPT !.pc = "done", !.exit = None]
      [] task.pc \in {"handshake", "loop"} -> Finally(task, "cancelled")
      [] OTHER -> task

\* main() has returned: asyncio.run cancels every task that is left (the
\* discovery and status loops, the fetch_metadata tasks) and runs the loop
\* until they have ended.  A task cancelled while it held a permit and no
\* open writer gives the permit back at once.
CancelAll ==
    /\ life.phase = "closed"
    /\ life' = [life EXCEPT !.phase = "stopped"]
    /\ tasks' = [t \in TaskIds |-> Cancelled(tasks[t])]
    /\ waiters' = <<>>
    /\ sem' = sem + Cardinality({t \in TaskIds : tasks[t].pc \in {"connecting", "closing"}})
    /\ NoDatagram
    /\ UNCHANGED <<crawlerVars, krpcVars, boot, spider, wire, tableVars>>

\* The process has ended and is started again: the filter is loaded from the
\* snapshot file; the store directory is as the last process left it.
Restart ==
    /\ life.phase = "stopped"
    /\ \A t \in TaskIds : tasks[t].pc = "done"
    /\ LET loaded == LoadBloomFilter(life.file) IN
       /\ life' = [life EXCEPT !.phase = IF loaded.ok THEN "restarted" ELSE "crashed"]
       /\ seen_info_hashes' = loaded.filter
    /\ metadata_fetched_count' = 0
    /\ sem' = FETCHER_SEMAPHORE_LIMIT
    /\ waiters' = <<>>
    /\ tasks' = <<>>
    /\ transaction_id' = 0
    /\ transactions' = EmptyDict
    /\ NoDatagram
    /\ UNCHANGED <<files, lock, boot, spider, wire, tableVars>>

\* ------------------------------------------------- Crawler.bootstrap

\* Entries of the bootstrap list (host, port) a Crawler is built with.
MaxBootstrap == 2

BootstrapNodes == {<<"router.a", "6881">>, <<"router.b", "6881">>}

BootstrapLists ==
    UNION {[1..n -> BootstrapNodes] : n \in 0..MaxBootstrap}

\* loop.getaddrinfo for an entry: the first address of the result, a
\* socket.gaierror, or any other exception.
Resolutions == {"resolved", "gaierror", "error"}

\* The sockaddr getaddrinfo gives for a host that resolves.
SockAddr(entry) == <<"ip." \o entry[1], entry[2]>>

\* KRPC.find_node_query(target_id), with the address it is sent to.
FindNodeQuery(trans_id, target_id, address) ==
    [to |-> address, t |-> trans_id, y |-> "q", q |-> "find_node",
     a |-> [id |-> node_id, target |-> target_id]]

\* A bootstrap that catches socket.gaierror only.
BootstrapRaisesOther(resolution) == resolution = "error"

\* Whether an exception of the entry leaves bootstrap(): "except
\* socket.gaierror" and "except Exception" catch everything.
BootstrapRaises(resolution) == FALSE

\* bootstrap() before Crawler.start() calls it.
NotStarted == [pc |-> "idle", nodes |-> <<>>, outcomes |-> <<>>, queries |-> <<>>]

\* Crawler.start() calls bootstrap(), which awaits getaddrinfo for its first
\* entry (the UDP endpoint exists by then: self.protocol is set).
StartBootstrap(nodes) ==
    /\ boot.pc = "idle"
    /\ life.phase = "running"
    /\ boot' = [boot EXCEPT !.pc = IF nodes = <<>> THEN "done" ELSE "resolving",
                            !.nodes = nodes]
    /\ NoDatagram
    /\ UNCHANGED <<crawlerVars, krpcVars, sem, waiters, tasks, life, spider, wire, tableVars>>

\* getaddrinfo for the entry awaited ends: a resolved entry is sent one
\* find_node query for the crawler's own id; then the next entry is awaited.
Resolved(resolution) ==
    /\ boot.pc = "resolving"
    /\ LET i == Len(boot.outcomes) + 1
           query == FindNodeQuery(GetTransactionId(transaction_id), node_id,
                                  SockAddr(boot.nodes[i]))
       IN  /\ boot' = [boot EXCEPT
                         !.pc = IF BootstrapRaises(resolution) THEN "raised"
                                ELSE IF i = Len(boot.nodes) THEN "done"
                                ELSE "resolving",
                         !.outcomes = Append(@, resolution),
                         !.queries = IF resolution = "resolved"
                                     THEN Append(@, [entry |-> i, datagram |-> query])
                                     ELSE @]
           /\ sent' = IF resolution = "resolved" THEN <<query>> ELSE <<>>
           /\ transaction_id' = IF resolution = "resolved" THEN transaction_id + 1
                                ELSE transaction_id
    /\ last' = NoMsg
    /\ spawned' = <<>>
    /\ escaped' = FALSE
    /\ UNCHANGED <<crawlerVars, transactions, sem, waiters, tasks, life, spider, wire, tableVars>>

\* ------------------------------------------------- the monolithic Spider

\* Spider.handle_query coroutines created over one run.
MaxSpiderQueries == 1

\* generate_node_id(): the random target of Spider.find_node.
RandomId == <<"rnd19", "rndL">>

\* Spider.find_node(addr): a find_node query for a random target.
SpiderFindNode(address) ==
    [to |-> address, t |-> "fn", y |-> "q", q |-> "find_node",
     a |-> [id |-> node_id, target |-> RandomId]]

\* A peer address that always takes the UDP source port.
SpiderGetPeerAddrSource(args, address) == <<address[1], address[2]>>

\* Spider._get_peer_addr(args, addr): (ip, port), or <<>> for None.
SpiderGetPeerAddr(args, address) ==
    LET port == PeerPort(args, address) IN
    IF TruthyInt(port) THEN <<address[1], port>> ELSE <<>>

\* Spider.handle_query as created by ensure_future in handle_message.
NewSpiderQuery(m) ==
    [msg |-> m.msg, addr |-> m.addr, pc |-> "scheduled",
     unseen |-> FALSE,     \* info_hash was not in the filter when the query was handled
     sent |-> <<>>,        \* the datagrams it has sent
     fetches |-> <<>>]     \* its calls of self.fetch_metadata

\* Spider.handle_query from its start to its first suspension or its end:
\* the response, then for an unseen announce with a peer address the call of
\* fetch_metadata, which is awaited; otherwise find_node back to the sender.
SpiderHandleQuery(c, seen) ==
    LET msg == c.msg
        args == Get(msg, "a", EmptyDict)
        sender_id == Get(args, "id", <<>>)
        query_type == Get(msg, "q", None)
        info_hash == Get(args, "info_hash", None)
        id_reply == [to |-> c.addr, t |-> Get(msg, "t", None), y |-> "r",
                     r |-> [id |-> FakeNodeId(sender_id)]]
        nodes_reply == [id_reply EXCEPT !.r = [id |-> FakeNodeId(sender_id), nodes |-> ""]]
        peers_reply == [id_reply EXCEPT !.r = [id |-> FakeNodeId(sender_id), nodes |-> "",
                                               token |-> info_hash \o "[:2]"]]
        done(datagrams) == [c EXCEPT !.pc = "done",
                                     !.sent = datagrams \o <<SpiderFindNode(c.addr)>>]
        raised == [c EXCEPT !.pc = "raised"]
        peer_addr == SpiderGetPeerAddr(args, c.addr)
    IN  CASE query_type = None -> raised
          [] query_type = "get_peers" ->
                 IF ~Has(args, "info_hash") \/ ~Has(msg, "t") THEN raised
                 ELSE done(<<peers_reply>>)
          [] query_type = "announce_peer" ->
                 IF ~Has(msg, "t") THEN raised
                 ELSE IF Truthy(info_hash) /\ info_hash \notin seen /\ peer_addr # <<>>
                 THEN [c EXCEPT !.pc = "fetch_metadata", !.unseen = TRUE,
                                !.sent = <<id_reply>>,
                                !.fetches = <<[ih |-> info_hash, ip |-> peer_addr[1],
                                               port |-> peer_addr[2]]>>]
                 ELSE [done(<<id_reply>>) EXCEPT
                          !.unseen = Truthy(info_hash) /\ info_hash \notin seen]
          [] query_type = "find_node" ->
                 IF ~Has(msg, "t") THEN raised ELSE done(<<nodes_reply>>)
          [] query_type = "ping" ->
                 IF ~Has(msg, "t") THEN raised ELSE done(<<id_reply>>)
          [] OTHER -> done(<<>>)

\* Spider.datagram_received for a query: handle_message passes handle_query
\* to ensure_future.
SpiderReceive(m) ==
    /\ Len(spider) < MaxSpiderQueries
    /\ spider' = Append(spider, NewSpiderQuery(m))
    /\ last' = m
    /\ sent' = <<>>
    /\ spawned' = <<>>
    /\ escaped' = FALSE
    /\ UNCHANGED <<crawlerVars, krpcVars, sem, waiters, tasks, life, boot, wire, tableVars>>

\* A handle_query coroutine runs for the first time.
SpiderStart(i) ==
    /\ spider[i].pc = "scheduled"
    /\ spider' = [spider EXCEPT ![i] = SpiderHandleQuery(@, seen_info_hashes)]
    /\ last' = NoMsg
    /\ sent' = spider'[i].sent
    /\ spawned' = <<>>
    /\ escaped' = FALSE
    /\ UNCHANGED <<crawlerVars, krpcVars, sem, waiters, tasks, life, boot, wire, tableVars>>

\* fetch_metadata returns to handle_query (it swallows every failure of the
\* session; a session that fetched valid metadata has run the Spider's
\* on_metadata_received): find_node goes back to the sender.
SpiderFetchReturns(i, fetched, writeOk) ==
    /\ spider[i].pc = "fetch_metadata"
    /\ spider' = [spider EXCEPT ![i].pc = "done",
                                ![i].sent = Append(@, SpiderFindNode(spider[i].addr))]
    /\ IF fetched
       THEN OnMetadataReceived(spider[i].fetches[1].ih, "d1", writeOk)
       ELSE UNCHANGED crawlerVars
    /\ last' = NoMsg
    /\ sent' = <<SpiderFindNode(spider[i].addr)>>
    /\ spawned' = <<>>
    /\ escaped' = FALSE
    /\ UNCHANGED <<krpcVars, sem, waiters, tasks, life, boot, wire, tableVars>>

\* ------------------------------------------------- kbucket.py

\* Node ids as integers (int.from_bytes(node_id, 'big')).
NodeIds == 0..(2^ID_BITS - 1)

\* What the table operations leave alone.
crawlVars == <<crawlerVars, krpcVars, sem, waiters, tasks, last, sent, spawned,
               escaped, life, boot, spider, wire>>

\* The elements of a sequence.
Range(seq) == {seq[i] : i \in 1..Len(seq)}

\* A bucket that drops its most recently seen node when it is full.
KBucketAddNodeDropNewest(nodes, id) ==
    IF id \in Range(nodes) THEN Append(SelectSeq(nodes, LAMBDA n : n # id), id)
    ELSE IF Len(nodes) < K THEN Append(nodes, id)
    ELSE Append(SubSeq(nodes, 1, Len(nodes) - 1), id)

\* KBucket.add_node on the bucket's OrderedDict, given as its keys in order:
\* move_to_end for a key that is present, insertion while there is room,
\* otherwise the first key is popped and the new one inserted at the end.
KBucketAddNode(nodes, id) ==
    IF id \in Range(nodes) THEN Append(SelectSeq(nodes, LAMBDA n : n # id), id)
    ELSE IF Len(nodes) < K THEN Append(nodes, id)
    ELSE Append(Tail(nodes), id)

\* KBucket(min_id, max_id) before any add_node.
EmptyBucket == [nodes |-> <<>>, before |-> <<>>, added |-> -1]

\* bucket.add_node((id, ip, port)) on a KBucket.
BucketAdd(id) ==
    /\ kbucket' = [nodes |-> KBucketAddNode(kbucket.nodes, id),
                   before |-> kbucket.nodes, added |-> id]
    /\ UNCHANGED <<crawlVars, routing>>

\* KBucket(min_id, max_id)
KBucket(min_id, max_id) == [min_id |-> min_id, max_id |-> max_id, nodes |-> <<>>]

\* No RoutingTable has been built.
NoTable == [our_node_id |-> -1, buckets |-> <<>>, at_split |-> -1]

\* RoutingTable(our_node_id).  at_split is the number of nodes in the table
\* when the latest add_node entered _split_bucket, -1 if it did not.
RoutingTable(our_node_id) ==
    [our_node_id |-> our_node_id, buckets |-> <<KBucket(0, 2^ID_BITS - 1)>>,
     at_split |-> -1]

\* sum(len(b) for b in buckets)
RECURSIVE TotalNodes(_)
TotalNodes(buckets) ==
    IF buckets = <<>> THEN 0 ELSE Len(Head(buckets).nodes) + TotalNodes(Tail(buckets))

\* RoutingTable._get_bucket_index: the list index (from 0) of the first
\* bucket with min_id <= id < max_id, -1 when there is none.
GetBucketIndex(buckets, id) ==
    LET hits == {i \in 1..Len(buckets) : buckets[i].min_id <= id /\ id < buckets[i].max_id}
    IN  IF hits = {} THEN -1
        ELSE (CHOOSE i \in hits : \A j \in hits : i <= j) - 1

\* The position in 1..Len of list[index]: Python counts a negative index
\* from the end.
Position(list, index) == IF index < 0 THEN Len(list) + index + 1 ELSE index + 1

\* list.insert(index, item) for index >= 0
Insert(list, index, item) ==
    LET at == IF index > Len(list) THEN Len(list) ELSE index IN
    SubSeq(list, 1, at) \o <<item>> \o SubSeq(list, at + 1, Len(list))

\* The nodes a bucket holds after add_node for each of ids in turn.
RECURSIVE AddAll(_, _)
AddAll(nodes, ids) ==
    IF ids = <<>> THEN nodes
    ELSE AddAll(KBucketAddNode(nodes, Head(ids)), Tail(ids))

\* RoutingTable._split_bucket(index)
SplitBucket(buckets, index) ==
    LET old_bucket == buckets[Position(buckets, index)]
        mid_point == old_bucket.min_id + (old_bucket.max_id - old_bucket.min_id) \div 2
        all_nodes == old_bucket.nodes
        new_bucket == [min_id |-> mid_point, max_id |-> old_bucket.max_id,
                       nodes |-> AddAll(<<>>, SelectSeq(all_nodes, LAMBDA n : n >= mid_point))]
        shrunk == [min_id |-> old_bucket.min_id, max_id |-> mid_point,
                   nodes |-> AddAll(<<>>, SelectSeq(all_nodes, LAMBDA n : n < mid_point))]
    IN  Insert([buckets EXCEPT ![Position(buckets, index)] = shrunk], index + 1, new_bucket)

\* RoutingTable.add_node((id, ip, port))
RoutingTableAddNode(table, id) ==
    IF id = table.our_node_id THEN [table EXCEPT !.at_split = -1]
    ELSE LET index == GetBucketIndex(table.buckets, id)
             at == Position(table.buckets, index)
             added == [table.buckets EXCEPT ![at].nodes = KBucketAddNode(@, id)]
             bucket == added[at]
         IN  IF /\ Len(bucket.nodes) = K
                /\ table.our_node_id >= bucket.min_id
                /\ table.our_node_id < bucket.max_id
             THEN [table EXCEPT !.buckets = SplitBucket(added, index),
                                !.at_split = TotalNodes(added)]
             ELSE [table EXCEPT !.buckets = added, !.at_split = -1]

\* A RoutingTable is built for our_node_id.
NewRoutingTable(our_node_id) ==
    /\ routing = NoTable
    /\ routing' = RoutingTable(our_node_id)
    /\ UNCHANGED <<crawlVars, kbucket>>

\* table.add_node((id, ip, port))
RoutingAdd(id) ==
    /\ routing # NoTable
    /\ routing' = RoutingTableAddNode(routing, id)
    /\ UNCHANGED <<crawlVars, kbucket>>

\* ------------------------------------------------- specification

\* After construction: the filter as loaded from its snapshot (any set), the
\* store directory empty, all permits free, no task, no transaction.
Init ==
    /\ seen_info_hashes \in SUBSET CrawlHashes
    /\ metadata_fetched_count = 0
    /\ files = [h \in InfoHashes |-> NoFile]
    /\ sem = FETCHER_SEMAPHORE_LIMIT
    /\ waiters = <<>>
    /\ tasks = <<>>
    /\ transaction_id = 0
    /\ transactions = EmptyDict
    /\ last = NoMsg
    /\ sent = <<>>
    /\ spawned = <<>>
    /\ lock = FALSE
    /\ escaped = FALSE
    /\ life = [phase |-> "running", file |-> Snapshot(seen_info_hashes),
               at_close |-> {}, written |-> FALSE]
    /\ boot = NotStarted
    /\ spider = <<>>
    /\ wire = NoWire
    /\ kbucket = EmptyBucket
    /\ routing = NoTable

\* The whole crawler, with peers that serve one-piece metadata.
Next ==
    \/ \E m \in Datagrams : Receive(m, MaxTasks)
    \/ \E h \in CrawlHashes : GetPeersQuery(h)
    \/ \E t \in TaskIds : StartTask(t)
    \/ \E t \in TaskIds : WakeTask(t)
    \/ \E t \in TaskIds : ConnectFail(t)
    \/ \E t \in TaskIds : ConnectOk(t)
    \/ \E t \in TaskIds, h \in InfoHashes : HandshakeReply(t, h)
    \/ \E t \in TaskIds : ReadFails(t)
    \/ \E t \in TaskIds, f \in BasicFrames : RecvFrame(t, f)
    \/ \E t \in TaskIds : CloseDone(t)

Spec == Init /\ [][Next]_vars

\* The UDP side alone, with every query: a handler runs to its end within
\* one callback of the loop, and the tasks it creates are left pending.
NextQueries == \E m \in Queries \cup Strays : Receive(m, MaxTasks)

SpecQueries == Init /\ [][NextQueries]_vars

\* The UDP side alone, with every reply.
NextReplies ==
    \/ \E m \in Replies \cup Strays : Receive(m, MaxTasks)
    \/ \E h \in CrawlHashes : GetPeersQuery(h)

SpecReplies == Init /\ [][NextReplies]_vars

\* Well-formed compact peers: 5.6.7.8:6881 and 9.9.9.9:80.
OtherPeer == <<9, 9, 9, 9, 0, 80>>

PeerReplies ==
    {Datagram([t |-> "1", y |-> "r", r |-> [id |-> SenderId, values |-> ListValue(v)]]) :
        v \in {<<GoodPeer>>, <<OtherPeer, GoodPeer>>, <<GoodPeer, GoodPeer>>}}

\* get_peers responses and the start of the fetches they schedule, up to
\* the peer's handshake.
NextPeers ==
    \/ \E m \in PeerReplies : Receive(m, MaxTasks)
    \/ \E h \in CrawlHashes : GetPeersQuery(h)
    \/ \E t \in TaskIds : StartTask(t)
    \/ \E t \in TaskIds : WakeTask(t)
    \/ \E t \in TaskIds : ConnectFail(t)
    \/ \E t \in TaskIds : ConnectOk(t)
    \/ \E t \in TaskIds : ReadFails(t)
    \/ \E t \in TaskIds : CloseDone(t)

SpecPeers == Init /\ [][NextPeers]_vars

\* announce_peer queries for every identifier a peer may serve.
SessionAnnounces == {Announce(h) : h \in InfoHashes}

\* Fetch sessions against arbitrary peers.
NextSession ==
    \/ \E m \in SessionAnnounces : Receive(m, MaxSessionTasks)
    \/ \E t \in TaskIds : StartTask(t)
    \/ \E t \in TaskIds : ConnectFail(t)
    \/ \E t \in TaskIds : ConnectOk(t)
    \/ \E t \in TaskIds, h \in InfoHashes : HandshakeReply(t, h)
    \/ \E t \in TaskIds : ReadFails(t)
    \/ \E t \in TaskIds, f \in AllFrames : RecvFrame(t, f)
    \/ \E t \in TaskIds : CloseDone(t)

SpecSession == Init /\ [][NextSession]_vars

\* Fetch sessions with the loop running whatever is ready: a callback that
\* can run does run.  Which frame arrives, and when, is the peer's choice;
\* the 10-second timeout of a read fires only if no frame arrives in time.
SpecSessionLive == SpecSession /\ WF_vars(NextSession)

\* The announce_peer query whose sessions are followed on the connection.
WireAnnounces == {m \in SessionAnnounces : m.msg.a.info_hash = "h1"}

\* Fetch sessions seen from the connection.
NextWire ==
    \/ \E m \in WireAnnounces : Receive(m, MaxSessionTasks)
    \/ \E t \in TaskIds : StartTask(t)
    \/ \E t \in TaskIds : ConnectOk(t)
    \/ \E t \in TaskIds : HandshakeReply(t, tasks[t].ih)
    \/ \E t \in TaskIds : ReadFails(t)
    \/ \E t \in TaskIds, f \in WireFrames : RecvFrameOnWire(t, f)
    \/ \E t \in TaskIds : CloseDone(t)

SpecWire == Init /\ [][NextWire]_vars

\* One process from start to shutdown, and the next start.  After main()
\* has closed the crawler, callbacks that were ready in the same iteration
\* of the loop still run before asyncio.run cancels the tasks: a session
\* whose frame has arrived processes it.
NextShutdown ==
    \/ \E m \in Announces : life.phase = "running" /\ Receive(m, MaxSessionTasks)
    \/ \E t \in TaskIds : life.phase = "running" /\ StartTask(t)
    \/ \E t \in TaskIds : life.phase = "running" /\ ConnectFail(t)
    \/ \E t \in TaskIds : life.phase = "running" /\ ConnectOk(t)
    \/ \E t \in TaskIds, h \in InfoHashes : life.phase = "running" /\ HandshakeReply(t, h)
    \/ \E t \in TaskIds : life.phase = "running" /\ ReadFails(t)
    \/ \E t \in TaskIds, f \in BasicFrames :
           life.phase \in {"running", "closed"} /\ RecvFrame(t, f)
    \/ \E t \in TaskIds : life.phase \in {"running", "closed", "stopped"} /\ CloseDone(t)
    \/ \E outcome \in WriteOutcomes : Close(outcome)
    \/ CancelAll
    \/ Restart

SpecShutdown == Init /\ [][NextShutdown]_vars

\* A KBucket under any sequence of add_node calls.
NextBucket == \E id \in NodeIds : BucketAdd(id)

SpecBucket == Init /\ [][NextBucket]_vars

\* A RoutingTable under any sequence of add_node calls.
NextRouting ==
    \/ \E id \in NodeIds : NewRoutingTable(id)
    \/ \E id \in NodeIds : RoutingAdd(id)

SpecRouting == Init /\ [][NextRouting]_vars

\* Crawler.start: the bootstrap, entry by entry.
NextBootstrap ==
    \/ \E nodes \in BootstrapLists : StartBootstrap(nodes)
    \/ \E resolution \in Resolutions : Resolved(resolution)

SpecBootstrap == Init /\ [][NextBootstrap]_vars

\* KRPC with get_peers queries whose replies come, come as errors, or never come.
MaxPending == 2

NextTransactions ==
    \/ \E m \in TransactionReplies : Receive(m, MaxTasks)
    \/ \E h \in CrawlHashes : GetPeersQueryUpTo(h, MaxPending)

SpecTransactions == Init /\ [][NextTransactions]_vars

\* KRPC with get_peers queries that are answered with nodes.
NextNodes ==
    \/ \E m \in NodesReplies : Receive(m, MaxTasks)
    \/ \E h \in CrawlHashes : GetPeersQueryUpTo(h, MaxPending)

SpecNodes == Init /\ [][NextNodes]_vars

\* The Spider's queries: announce_peer with every argument dictionary, and
\* one query of each other kind.
SpiderQueries ==
    {m \in Queries : /\ m.msg.q = "announce_peer" \/ m.msg.a = [id |-> SenderId]
                     /\ m.msg.q # "vote" \/ Has(m.msg, "t")}

NextSpider ==
    \/ \E m \in SpiderQueries : SpiderReceive(m)
    \/ \E i \in 1..Len(spider) : SpiderStart(i)
    \/ \E i \in 1..Len(spider), fetched, writeOk \in BOOLEAN : SpiderFetchReturns(i, fetched, writeOk)

SpecSpider == Init /\ [][NextSpider]_vars

\* ------------------------------------------------- the concurrency gate

\* C1: in every reachable state the sessions that have started and not yet
\* ended number at most FETCHER_SEMAPHORE_LIMIT, however announce_peer queries
\* and get_peers responses schedule fetches.
InFlightBounded == Cardinality(InFlight) <= FETCHER_SEMAPHORE_LIMIT

\* The gate is full while a further fetch waits, with fetches scheduled by an
\* announce_peer query and by a get_peers response.
GateFullWitness ==
    /\ Cardinality(InFlight) = FETCHER_SEMAPHORE_LIMIT
    /\ \E t \in TaskIds : tasks[t].pc = "waiting"
    /\ \E t, u \in TaskIds : tasks[t].origin = "announce_peer" /\ tasks[u].origin = "get_peers"

\* C2: a permit is held exactly by the sessions between connect and return:
\* the free permits and the sessions in flight add up to
\* FETCHER_SEMAPHORE_LIMIT, a connection is open only under a permit, and with
\* no session in flight every permit is free.
NoPermitLeaked ==
    /\ sem + Cardinality(InFlight) = FETCHER_SEMAPHORE_LIMIT
    /\ \A t \in TaskIds : tasks[t].writer /\ tasks[t].pc # "done" => t \in InFlight
    /\ InFlight = {} => sem = FETCHER_SEMAPHORE_LIMIT

\* Two sessions have ended, one after an error inside the completion callback
\* (metadata that is no dictionary) and one without a connection; no session
\* is in flight and every permit is free.
AllReleasedWitness ==
    /\ InFlight = {}
    /\ sem = FETCHER_SEMAPHORE_LIMIT
    /\ \E t, u \in TaskIds :
          /\ tasks[t].pc = "done" /\ tasks[t].callbacks = 1
          /\ ~IsDict(Bdecode(tasks[t].delivered))
          /\ tasks[u].pc = "done" /\ ~tasks[u].writer

\* ------------------------------------------------- dedup

\* The sessions started for info_hash h.
Sessions(h) == {t \in TaskIds : tasks[t].ih = h /\ tasks[t].pc \notin {"scheduled", "waiting"}}

\* The fetches announce_peer queries have scheduled for info_hash h.
AnnounceFetches(h) == {t \in TaskIds : tasks[t].ih = h /\ tasks[t].origin = "announce_peer"}

\* C3 as stated: for every info_hash at most one fetch session is ever
\* initiated.
AtMostOneFetch == \A h \in InfoHashes : Cardinality(Sessions(h)) <= 1

\* C3: once an info_hash is in the SeenSet, no announce_peer query schedules
\* a fetch for it any more (before that, every announce schedules its own).
NoFetchOnceSeen ==
    [][\A h \in InfoHashes :
          h \in seen_info_hashes => AnnounceFetches(h)' = AnnounceFetches(h)]_vars

\* An announce for an info_hash is handled after a session for it succeeded.
AnnounceAfterSuccessWitness ==
    /\ last \in Announces
    /\ last.msg.a.info_hash \in seen_info_hashes
    /\ \E t \in AnnounceFetches(last.msg.a.info_hash) :
          tasks[t].pc = "done" /\ tasks[t].callbacks = 1

\* The latest callback handled an announce_peer query that reached
\* handle_announce_peer_query with an info_hash of the SeenSet.
SeenAnnounce ==
    /\ last.form = "dict"
    /\ Get(last.msg, "y", None) = "q"
    /\ Get(last.msg, "q", None) = "announce_peer"
    /\ Truthy(Get(last.msg, "t", None))
    /\ Get(Get(last.msg, "a", EmptyDict), "info_hash", None) \in seen_info_hashes

\* C4: an announce_peer query whose info_hash is in the SeenSet when it is
\* handled schedules no metadata fetch, whatever its port and implied_port.
SeenAnnounceSchedulesNoFetch ==
    SeenAnnounce => \A i \in 1..Len(spawned) : ~IsFetch(spawned[i])

\* A seen info_hash is announced with implied_port set and no port argument.
SeenImpliedPortWitness ==
    /\ SeenAnnounce
    /\ Get(last.msg.a, "implied_port", None) = "1"
    /\ ~Has(last.msg.a, "port")
    /\ Has(last.msg.a, "id")

\* ------------------------------------------------- the fetcher session

\* C5: whenever a session has invoked its completion callback, every piece
\* slot of the assembly it delivered was filled and the SHA-1 of the
\* concatenated slots is the session's info_hash.
CallbackOnlyForValidAssembly ==
    \A t \in TaskIds :
        tasks[t].callbacks > 0 =>
            /\ AllFilled(tasks[t].delivered)
            /\ SHA1(tasks[t].delivered) = tasks[t].ih

\* A session has just delivered an assembly of two pieces.
TwoPieceCallbackWitness ==
    \E t \in TaskIds :
        tasks[t].callbacks = 1 /\ Len(tasks[t].delivered) = 2 /\ tasks[t].exit = "callback"

\* C6: a session invokes its completion callback at most once, whatever
\* frames the peer sends.
CallbackAtMostOnce == \A t \in TaskIds : tasks[t].callbacks <= 1

\* A session that invoked the callback has returned.
CallbackThenDoneWitness ==
    \E t \in TaskIds : tasks[t].callbacks = 1 /\ tasks[t].pc = "done"

\* The step ends session t by a protocol violation: the peer's handshake
\* carries another info_hash, or a piece completes an assembly whose SHA-1 is
\* not info_hash.
EndsByViolation(t) ==
    \/ /\ tasks[t].pc = "handshake"
       /\ \E h \in InfoHashes : h # tasks[t].ih /\ HandshakeReply(t, h)
    \/ /\ tasks[t].pc = "loop"
       /\ tasks'[t].pc = "closing"
       /\ \E f \in AllFrames :
          /\ f.kind = "ext_data" /\ f.header
          /\ f.sub = tasks[t].peer_ut_metadata_id
          /\ ~IndexError(tasks[t].metadata_pieces, f.piece)
          /\ LET pieces == StorePiece(tasks[t].metadata_pieces, f.piece, f.data)
             IN  AllFilled(pieces) /\ SHA1(pieces) # tasks[t].ih
          /\ RecvFrame(t, f)

\* C7: a step that ends a session by a protocol violation writes no torrent
\* file and leaves the SeenSet and the fetched counter unchanged.
ViolationChangesNothing ==
    [][\A t \in TaskIds : EndsByViolation(t) => UNCHANGED crawlerVars]_vars

\* A session has ended on a SHA-1 mismatch; nothing was stored or counted.
HashMismatchWitness ==
    /\ \E t \in TaskIds : tasks[t].exit = "hash" /\ tasks[t].callbacks = 0
    /\ \A h \in InfoHashes : files[h] = NoFile
    /\ metadata_fetched_count = 0

\* The sessions that delivered valid metadata: a dictionary whose bytes have
\* the info_hash as SHA-1.
Fetched == {t \in TaskIds : tasks[t].callbacks > 0 /\ IsDict(Bdecode(tasks[t].delivered))}

\* C8 as stated: after a session has completed with valid metadata for H,
\* the store holds the file for H with the metadata's bencoding, the SeenSet
\* contains H and the counter has gone up by one for that session.
ValidMetadataStored ==
    /\ \A t \in Fetched :
          /\ files[tasks[t].ih] = Bencode(Bdecode(tasks[t].delivered))
          /\ tasks[t].ih \in seen_info_hashes
    /\ metadata_fetched_count = Cardinality(Fetched)

\* ------------------------------------------------- queries

\* The latest callback handled a query of a known kind that carries a
\* transaction id and a sender id.
KnownQuery ==
    /\ last.form = "dict"
    /\ Get(last.msg, "y", None) = "q"
    /\ Get(last.msg, "q", None) \in {"ping", "find_node", "get_peers", "announce_peer"}
    /\ Truthy(Get(last.msg, "t", None))
    /\ Has(Get(last.msg, "a", EmptyDict), "id")

\* C9 as stated: every query of a known kind that carries a transaction id
\* and a sender id is answered by exactly one response datagram that echoes
\* the transaction id to the sender's address.
EveryQueryAnswered ==
    KnownQuery =>
        /\ Len(sent) = 1
        /\ sent[1].y = "r"
        /\ sent[1].t = last.msg.t
        /\ sent[1].to = last.addr

\* C10: an announce_peer query for an info_hash already in the SeenSet sends
\* no datagram at all and schedules no fetch.
SeenAnnounceIsSilent ==
    SeenAnnounce => sent = <<>> /\ SelectSeq(spawned, IsFetch) = <<>>

\* The announce of a seen info_hash with an explicit port was handled.
SeenExplicitPortWitness ==
    /\ last \in Announces
    /\ last.msg.a.info_hash \in seen_info_hashes
    /\ sent = <<>>

\* ------------------------------------------------- announce_peer: the peer port

\* The latest callback handled an announce_peer query that carries a
\* transaction id and a sender id, for an info_hash not in the SeenSet.
UnseenAnnounce ==
    /\ last.form = "dict"
    /\ Get(last.msg, "y", None) = "q"
    /\ Get(last.msg, "q", None) = "announce_peer"
    /\ Truthy(Get(last.msg, "t", None))
    /\ Has(Get(last.msg, "a", EmptyDict), "id")
    /\ Has(Get(last.msg, "a", EmptyDict), "info_hash")
    /\ last.msg.a.info_hash \notin seen_info_hashes

\* C11 as stated: the fetch an unseen announce from (ip, sport) schedules
\* goes to (ip, sport) if implied_port is present and non-zero, and to
\* (ip, port argument) otherwise.
FetchTargetAsSpecified ==
    UnseenAnnounce =>
        \A i \in 1..Len(spawned) :
            IsFetch(spawned[i]) =>
                /\ spawned[i].ip = last.addr[1]
                /\ spawned[i].port =
                       IF /\ Has(last.msg.a, "implied_port")
                          /\ last.msg.a.implied_port # "0"
                       THEN last.addr[2]
                       ELSE Get(last.msg.a, "port", None)

\* C12: an unseen announce with implied_port 0 and a port argument that is
\* absent or 0 is answered with the ping-style response and schedules no
\* fetch.
NoPortAnnounce ==
    /\ UnseenAnnounce
    /\ Get(last.msg.a, "implied_port", None) = "0"
    /\ Get(last.msg.a, "port", "0") = "0"

NoPortNoFetch ==
    NoPortAnnounce =>
        /\ Len(sent) = 1
        /\ sent[1].to = last.addr /\ sent[1].t = last.msg.t /\ sent[1].y = "r"
        /\ SelectSeq(spawned, IsFetch) = <<>>

\* An announce with implied_port 0 and port 0 was answered.
ZeroPortWitness ==
    /\ NoPortAnnounce
    /\ Has(last.msg.a, "port")
    /\ sent # <<>>

\* C13 as stated: an unseen announce makes the crawler send exactly two
\* datagrams to the sender, the ping response and a find_node query.
ReverseQuerySent ==
    UnseenAnnounce =>
        /\ Len(sent) = 2
        /\ sent[1].y = "r" /\ sent[1].to = last.addr
        /\ sent[2].y = "q" /\ sent[2].q = "find_node" /\ sent[2].to = last.addr

\* ------------------------------------------------- ping, find_node, get_peers

\* The latest callback handled a query of kind q that carries a transaction
\* id and a sender id.
QueryHandled(q) ==
    /\ last.form = "dict"
    /\ Get(last.msg, "y", None) = "q"
    /\ Get(last.msg, "q", None) = q
    /\ Truthy(Get(last.msg, "t", None))
    /\ Has(Get(last.msg, "a", EmptyDict), "id")

\* x[0:19] = S[0:19] and x[19] = own_id[19], for the sender id S.
NearId(S) == <<S[1], node_id[2]>>

\* The one datagram {t, y: r, r: {id: near id}} to the sender.
PingAnswered ==
    sent = <<[to |-> last.addr, t |-> last.msg.t, y |-> "r",
              r |-> [id |-> NearId(last.msg.a.id)]]>>

\* C14: a ping query with transaction id t and sender id S is answered by
\* exactly one datagram {t, y: r, r: {id: S[0:19] + own_id[19]}} to the
\* sender, and nothing else changes: no coroutine is scheduled, and tasks,
\* permits, transactions, SeenSet, counter and store stay as they are.
PingAnsweredOnly ==
    [][QueryHandled("ping")' =>
          /\ PingAnswered'
          /\ spawned' = <<>>
          /\ UNCHANGED <<crawlerVars, krpcVars, sem, waiters, tasks>>]_vars

\* A ping was answered under an id that differs from the crawler's own.
PingWitness ==
    /\ QueryHandled("ping")
    /\ Len(sent) = 1
    /\ sent[1].r.id # node_id

\* C15 as stated: a find_node query from S is answered by exactly one
\* response {t, y: r, r: {id: fake_id_near(S), nodes: empty}} to the sender.
FindNodeAnswered ==
    QueryHandled("find_node") =>
        /\ sent = <<[to |-> last.addr, t |-> last.msg.t, y |-> "r",
                     r |-> [id |-> NearId(last.msg.a.id), nodes |-> ""]]>>
        /\ spawned = <<>>

\* The first two bytes of an info_hash.
FirstTwo(info_hash) == info_hash \o "[0:2]"

\* C16 as stated: a get_peers query for H from S is answered by one response
\* with id = fake_id_near(S), token = H[0:2] and empty nodes, and
\* on_get_peers(H, sender address) is scheduled exactly once, with no fetch.
GetPeersAnswered ==
    QueryHandled("get_peers") /\ Has(last.msg.a, "info_hash") =>
        /\ Len(sent) = 1
        /\ sent[1].to = last.addr /\ sent[1].t = last.msg.t /\ sent[1].y = "r"
        /\ sent[1].r.id = NearId(last.msg.a.id)
        /\ sent[1].r.token = FirstTwo(last.msg.a.info_hash)
        /\ sent[1].r.nodes = ""
        /\ spawned = <<[fn |-> "on_get_peers", info_hash |-> last.msg.a.info_hash,
                        addr |-> last.addr]>>

\* ------------------------------------------------- responses

\* C17 as stated: a find_node response with n compact nodes makes the
\* crawler send one ping query to each of the n node addresses, with a
\* near-id built from that node's id.
NodesPinged ==
    /\ last.form = "dict"
    /\ Get(last.msg, "y", None) = "r"
    /\ Truthy(Get(last.msg, "t", None))
    /\ Has(Get(last.msg, "r", EmptyDict), "nodes")
    => /\ Len(sent) = Len(last.msg.r.nodes)
       /\ \A i \in 1..Len(sent) :
             /\ sent[i].to = <<last.msg.r.nodes[i].ip, last.msg.r.nodes[i].port>>
             /\ sent[i].y = "q" /\ sent[i].q = "ping"
             /\ sent[i].a.id = NearId(last.msg.r.nodes[i].id)

\* KRPC.handle_response routes message m to handle_get_peers_response: m is
\* a response without nodes, with values, whose transaction id is in table.
RoutedGetPeers(m, table) ==
    /\ m.form = "dict"
    /\ Get(m.msg, "y", None) = "r"
    /\ Truthy(Get(m.msg, "t", None))
    /\ ~Has(Get(m.msg, "r", EmptyDict), "nodes")
    /\ Has(Get(m.msg, "r", EmptyDict), "values")
    /\ Has(table, m.msg.t)

\* The (ip, port) a well-formed compact peer stands for.
AddressOf(peer) ==
    CASE peer = GoodPeer -> <<"5.6.7.8", "6881">>
      [] peer = OtherPeer -> <<"9.9.9.9", "80">>

\* C18: a get_peers response routed with info_hash H schedules exactly one
\* fetch for H per compact peer, to that peer's (ip, port), each as a task
\* that has yet to pass the gate; and a task scheduled by a get_peers
\* response starts to connect only by taking a free permit.
OneGatedFetchPerPeer ==
    [][/\ RoutedGetPeers(last', transactions) =>
            LET peers == last'.msg.r.values.items
                H == transactions[last'.msg.t]
            IN  /\ Len(spawned') = Len(peers)
                /\ Len(tasks') = Len(tasks) + Len(peers)
                /\ \A i \in 1..Len(peers) :
                      /\ spawned'[i].fn = "fetch_metadata"
                      /\ spawned'[i].ih = H
                      /\ <<spawned'[i].ip, spawned'[i].port>> = AddressOf(peers[i])
                      /\ tasks'[Len(tasks) + i].ih = H
                      /\ <<tasks'[Len(tasks) + i].ip, tasks'[Len(tasks) + i].port>>
                             = AddressOf(peers[i])
                      /\ tasks'[Len(tasks) + i].pc = "scheduled"
       /\ \A t \in TaskIds :
             /\ tasks[t].origin = "get_peers"
             /\ tasks[t].pc \in {"scheduled", "waiting"}
             /\ tasks'[t].pc = "connecting"
             => sem > 0 /\ sem' = sem - 1]_vars

\* A response with two different peers was routed and two fetches scheduled.
TwoPeersWitness ==
    /\ last \in PeerReplies
    /\ last.msg.r.values.items = <<OtherPeer, GoodPeer>>
    /\ Len(spawned) = 2
    /\ Len(tasks) = 2

SixBytes(peer) == Len(peer) = 6

\* C19 as stated: of the values of a routed get_peers response, exactly the
\* 6-byte strings get a fetch; every other element is dropped.
OnlySixBytePeersFetched ==
    [][RoutedGetPeers(last', transactions) =>
          Len(SelectSeq(spawned', IsFetch))
              = Len(SelectSeq(last'.msg.r.values.items, SixBytes))]_vars

\* C20 as stated: once a get_peers response with transaction id t has been
\* routed to the handler, t is no longer in the transaction table.
RoutedTransactionConsumed ==
    [][RoutedGetPeers(last', transactions) => ~Has(transactions', last'.msg.t)]_vars

\* ------------------------------------------------- responses without a transaction

\* A response with values whose transaction id is not in the table.
UnroutedValues(m, table) ==
    /\ m.form = "dict"
    /\ Get(m.msg, "y", None) = "r"
    /\ Truthy(Get(m.msg, "t", None))
    /\ Has(Get(m.msg, "r", EmptyDict), "values")
    /\ ~Has(table, m.msg.t)

\* C21: handling a response that has values but whose transaction id is not
\* in the transaction table schedules no fetch, sends nothing, creates no
\* task and leaves the transaction table as it was.
UnroutedValuesDropped ==
    [][UnroutedValues(last', transactions) =>
          /\ spawned' = <<>>
          /\ sent' = <<>>
          /\ tasks' = tasks
          /\ transactions' = transactions]_vars

\* A well-formed peer list has arrived under the unknown id "2" while
\* transaction "1" is registered; nothing was scheduled and "1" is still there.
UnroutedValuesWitness ==
    /\ UnroutedValues(last, transactions)
    /\ last.msg.t = "2"
    /\ last.msg.r = [id |-> SenderId, values |-> ListValue(<<GoodPeer>>)]
    /\ Has(transactions, "1")
    /\ spawned = <<>>
    /\ tasks = <<>>

\* ------------------------------------------------- malformed datagrams

\* A query of a known kind, with a transaction id, whose arguments lack id.
QueryWithoutId(m) ==
    /\ m.form = "dict"
    /\ Get(m.msg, "y", None) = "q"
    /\ Truthy(Get(m.msg, "t", None))
    /\ Get(m.msg, "q", None) \in {"ping", "find_node", "get_peers", "announce_peer"}
    /\ ~Has(Get(m.msg, "a", EmptyDict), "id")

\* C22: no exception leaves handle_message, whatever the datagram; bytes
\* that do not decode, a value that is no dictionary and a message without y
\* change nothing at all, and a query whose arguments lack id is dropped
\* with nothing sent, nothing scheduled and no task created.
HandleMessageNeverRaises ==
    [][/\ escaped' = FALSE
       /\ (last'.form \in {"undecodable", "nondict"}
             \/ (last'.form = "dict" /\ ~Has(last'.msg, "y"))) =>
              /\ sent' = <<>>
              /\ spawned' = <<>>
              /\ UNCHANGED <<crawlerVars, krpcVars, sem, waiters, tasks>>
       /\ QueryWithoutId(last') =>
              /\ sent' = <<>>
              /\ spawned' = <<>>
              /\ tasks' = tasks]_vars

\* A ping whose arguments lack id has been handled: the handler raised
\* KeyError, nothing left handle_message and nothing was sent.
FailingHandlerWitness ==
    /\ QueryWithoutId(last)
    /\ last.msg.q = "ping"
    /\ ~escaped
    /\ sent = <<>>

\* ------------------------------------------------- the filter across a restart

BootstrapQueries(i) == {j \in 1..Len(boot.queries) : boot.queries[j].entry = i}

\* C24: no exception leaves bootstrap(), and of the entries it has gone
\* through, each one that resolved was sent exactly one find_node query, to
\* its resolved address and with the crawler's own id as the target, and each
\* one that failed was sent nothing, whatever happened to the other entries.
BootstrapQueriesEachResolved ==
    /\ boot.pc # "raised"
    /\ \A i \in 1..Len(boot.outcomes) :
          IF boot.outcomes[i] = "resolved"
          THEN /\ Cardinality(BootstrapQueries(i)) = 1
               /\ \A j \in BootstrapQueries(i) :
                     LET d == boot.queries[j].datagram IN
                     /\ d.to = SockAddr(boot.nodes[i])
                     /\ d.y = "q"
                     /\ d.q = "find_node"
                     /\ d.a = [id |-> node_id, target |-> node_id]
          ELSE BootstrapQueries(i) = {}

\* bootstrap() has ended on a list of two entries: the first did not
\* resolve, the second did and was sent the one query there is.
UnresolvableThenResolvedWitness ==
    /\ boot.pc = "done"
    /\ boot.outcomes = <<"gaierror", "resolved">>
    /\ Len(boot.queries) = 1
    /\ sent = <<boot.queries[1].datagram>>

\* ------------------------------------------------- shutdown

\* main() has closed the crawler and the UDP transport.
ShutDown(l) == l.phase \in {"closed", "stopped"}

\* C25: once the shutdown sequence has completed, no step of the process
\* runs a completion callback: no session's callback count grows, no file of
\* the store changes, and the SeenSet and the fetched counter stay as they are.
NoCallbackAfterShutdown ==
    [][(ShutDown(life) /\ ShutDown(life')) =>
          /\ \A t \in TaskIds : tasks'[t].callbacks = tasks[t].callbacks
          /\ files' = files
          /\ seen_info_hashes' = seen_info_hashes
          /\ metadata_fetched_count' = metadata_fetched_count]_vars

\* C26: the filter snapshot is taken only when no fetch session is in flight,
\* and from then on a written snapshot contains every identifier of the
\* SeenSet of the process that wrote it.
SnapshotAfterDrain ==
    [][/\ (life.phase = "running" /\ life'.phase = "closed") => InFlight = {}
       /\ (ShutDown(life') /\ life'.written) =>
              seen_info_hashes' \subseteq FromFile(life'.file)]_vars

\* ------------------------------------------------- the session's connection

\* The ways a session with an open connection leaves fetch()'s try block:
\* handshake mismatch, failed read (timeout, peer close), a frame that does
\* not decode, hash mismatch, metadata that does not decode, callback done,
\* a request that cannot be built.
ExitPaths == {"handshake", "read", "frame", "hash", "decode", "callback", "request"}

\* C27: a session that opened a connection has called writer.close() by the
\* time it has left fetch()'s try block, on each of the exit paths, and so
\* before fetch() returns.
ConnectionClosedOnExit ==
    \A t \in TaskIds :
        /\ tasks[t].exit # None => (tasks[t].exit \in ExitPaths /\ tasks[t].writer /\ tasks[t].closed)
        /\ (tasks[t].writer /\ tasks[t].pc \in {"closing", "done"}) => tasks[t].closed

\* A read has timed out in the message loop: the session is in its finally
\* clause with the connection closed.
ReadTimeoutClosedWitness ==
    \E t \in TaskIds :
        /\ tasks[t].exit = "read"
        /\ tasks[t].pc = "closing"
        /\ tasks[t].writer
        /\ tasks[t].closed

\* ------------------------------------------------- the store lock

TransactionCap == 1

\* C29: in every reachable state the transaction table holds at most
\* TransactionCap entries.
TransactionsBounded == Cardinality(DOMAIN transactions) <= TransactionCap

\* ------------------------------------------------- the Spider's announce_peer

\* A handle_query coroutine that has handled an announce_peer query for an
\* info_hash the filter did not hold, with implied_port 0 and a port.
SpiderAnnounce(c) ==
    /\ c.msg.q = "announce_peer"
    /\ Has(c.msg, "t")
    /\ c.unseen
    /\ Get(c.msg.a, "implied_port", None) = "0"
    /\ TruthyInt(Get(c.msg.a, "port", None))

\* The response and the find_node query of a coroutine, by what they are.
IsResponseTo(d, c) == d.to = c.addr /\ d.y = "r" /\ d.t = c.msg.t

IsFindNodeTo(d, c) == d.to = c.addr /\ d.y = "q" /\ d.q = "find_node"

\* C30: the Spider's handling of an announce_peer query for an unseen
\* info_hash with implied_port 0 and port p from (ip, sport) never raises,
\* calls fetch_metadata exactly once, with (info_hash, (ip, p)), and has sent
\* exactly two datagrams when it ends: the response, then a find_node query
\* back to the sender (only the response while fetch_metadata is awaited).
SpiderAnnounceHandled ==
    \A i \in 1..Len(spider) :
        LET c == spider[i] IN
        SpiderAnnounce(c) =>
            /\ c.pc \in {"fetch_metadata", "done"}
            /\ c.fetches = <<[ih |-> c.msg.a.info_hash, ip |-> c.addr[1],
                              port |-> c.msg.a.port]>>
            /\ Len(c.sent) = (IF c.pc = "done" THEN 2 ELSE 1)
            /\ IsResponseTo(c.sent[1], c)
            /\ c.pc = "done" => IsFindNodeTo(c.sent[2], c)

\* The announce of "h1" with port 5678 from 1.2.3.4:1234 has been handled to
\* its end: two datagrams, one fetch of ("h1", ("1.2.3.4", "5678")).
SpiderAnnounceWitness ==
    \E i \in 1..Len(spider) :
        /\ SpiderAnnounce(spider[i])
        /\ spider[i].pc = "done"
        /\ Len(spider[i].sent) = 2
        /\ spider[i].fetches = <<[ih |-> "h1", ip |-> "1.2.3.4", port |-> "5678"]>>

\* ------------------------------------------------- messages that are no data

\* The latest frame was a ut_metadata message on the sub-id the peer
\* announced whose msg_type is request (0) or reject (2).
NonDataMessage(w) ==
    /\ w.task # 0
    /\ w.frame.kind = "ext_data"
    /\ w.negotiated # None
    /\ w.frame.sub = w.negotiated
    /\ w.frame.msg_type # 1

\* C31 as stated: a request or reject message received on the negotiated
\* sub-id fills no piece slot and does not make the assembly complete.
OnlyDataFillsAssembly ==
    NonDataMessage(wire) => wire.after = wire.before /\ ~wire.complete

\* ------------------------------------------------- the piece requests

\* The latest frame was the peer's extension handshake announcing a
\* ut_metadata id and a positive metadata_size.
AnnouncingHandshake(w) ==
    /\ w.task # 0
    /\ w.frame.kind = "ext_handshake"
    /\ w.frame.decodable
    /\ w.frame.ut_metadata # None
    /\ w.frame.metadata_size > 0

\* Requests for the pieces 0..ceil(size/16384)-1 in ascending order, each to
\* sub-id u.
AscendingRequests(u, size) ==
    [i \in 1..NumPieces(size) |-> [sub |-> u, msg_type |-> 0, piece |-> i - 1]]

\* Requests are written on no other frame than an extension handshake.
NoRequestBeforeHandshake ==
    (wire.task # 0 /\ wire.written # <<>>) => wire.frame.kind = "ext_handshake"

\* C32 as stated: on the handshake announcing id u and size s > 0 the
\* session writes the requests 0..ceil(s/16384)-1 in ascending order to
\* sub-id u before it reads another frame, whatever u is, and writes no
\* request on any other frame.
RequestsForEveryAnnouncedId ==
    /\ AnnouncingHandshake(wire) =>
            wire.written = AscendingRequests(wire.frame.ut_metadata,
                                             wire.frame.metadata_size)
    /\ NoRequestBeforeHandshake

\* C32, amended: the same when the announced id u fits the one byte the
\* message gives it (1..255); a wider id makes the first request raise, so
\* none is written and the session ends.
RequestsForEveryPiece ==
    /\ (AnnouncingHandshake(wire) /\ FitsByte(wire.frame.ut_metadata)) =>
            wire.written = AscendingRequests(wire.frame.ut_metadata,
                                             wire.frame.metadata_size)
    /\ NoRequestBeforeHandshake

\* A handshake announcing id 1 and two pieces was answered with the requests
\* for piece 0 and piece 1, in that order.
TwoRequestsWitness ==
    /\ AnnouncingHandshake(wire)
    /\ wire.frame.ut_metadata = "1"
    /\ wire.frame.metadata_size = PIECE_LEN + 1
    /\ Len(wire.written) = 2
    /\ wire.written[1].piece = 0
    /\ wire.written[2].piece = 1

\* ------------------------------------------------- termination of a session

\* Session i is in the message loop, holding its permit.
InLoop(i) == i \in TaskIds /\ tasks[i].pc = "loop"

\* Session i has returned: fetch_metadata left "async with" and released
\* its permit.
Returned(i) == i \in TaskIds /\ tasks[i].pc = "done"

\* C33 as stated: every session that reads frames eventually returns and
\* releases its permit, whatever the peer sends.
EverySessionEnds ==
    \A i \in 1..MaxSessionTasks : InLoop(i) ~> Returned(i)

\* ------------------------------------------------- two sessions, one info_hash

\* This step is session t calling on_metadata_callback with a dictionary.
CompletesValid(t) ==
    /\ metadata_fetched_count' # metadata_fetched_count
    /\ tasks'[t].callbacks = tasks[t].callbacks + 1
    /\ IsDict(Bdecode(tasks'[t].delivered))

\* Another session for the same info_hash completed with valid metadata
\* before this step.
CompletedBefore(t) ==
    \E u \in Fetched : u # t /\ tasks[u].ih = tasks[t].ih

\* The step leaves the file of session t's info_hash and the SeenSet as they
\* were: the file holds the metadata's bencoding, the SeenSet the info_hash.
PersistenceUnchanged(t) ==
    /\ files'[tasks[t].ih] = files[tasks[t].ih]
    /\ files'[tasks[t].ih] = Bencode(Bdecode(tasks'[t].delivered))
    /\ seen_info_hashes' = seen_info_hashes
    /\ tasks[t].ih \in seen_info_hashes'

ClosesCrawler == life.phase = "running" /\ life'.phase = "closed"

\* C35 as stated: whatever happens to the write in Crawler.close(), the
\* file at the filter path is afterwards the complete previous snapshot or
\* the complete new one, and close() goes on to close the store.
SnapshotFileAtomic ==
    [][ClosesCrawler => life'.file \in {life.file, ToFile(seen_info_hashes)}]_vars

\* ------------------------------------------------- the K-bucket

\* The nodes without id, in their order.
Others(nodes, id) == SelectSeq(nodes, LAMBDA n : n # id)

\* C36: after any sequence of add_node calls the bucket holds at most K
\* nodes; adding a node that is present moves it to the most recently seen
\* end and keeps the size; adding a new node to a full bucket evicts the
\* least recently seen node, and that one only, and puts the new node at
\* the most recently seen end.
BucketKeepsKMostRecent ==
    /\ Len(kbucket.nodes) <= K
    /\ kbucket.added # -1 =>
          /\ kbucket.nodes # <<>>
          /\ kbucket.nodes[Len(kbucket.nodes)] = kbucket.added
          /\ kbucket.added \in Range(kbucket.before) =>
                /\ Len(kbucket.nodes) = Len(kbucket.before)
                /\ kbucket.nodes = Others(kbucket.before, kbucket.added) \o <<kbucket.added>>
          /\ (kbucket.added \notin Range(kbucket.before) /\ Len(kbucket.before) = K) =>
                kbucket.nodes = Tail(kbucket.before) \o <<kbucket.added>>

\* A node that was not in a full bucket has been added: the bucket is full,
\* its oldest node is gone and the new node is the most recent.
FullBucketEvictionWitness ==
    /\ kbucket.added # -1
    /\ Len(kbucket.before) = K
    /\ kbucket.added \notin Range(kbucket.before)
    /\ Len(kbucket.nodes) = K
    /\ Head(kbucket.before) \notin Range(kbucket.nodes)
    /\ kbucket.nodes[K] = kbucket.added

\* ------------------------------------------------- the routing table

\* The buckets, in list order, start at 0, end at 2^ID_BITS - 1 and each
\* ends where the next begins.
Contiguous(buckets) ==
    /\ buckets[1].min_id = 0
    /\ buckets[Len(buckets)].max_id = 2^ID_BITS - 1
    /\ \A i \in 1..(Len(buckets) - 1) : buckets[i].max_id = buckets[i + 1].min_id

\* The bucket's range contains id; the highest id, which no min_id <= id <
\* max_id admits, counts as inside the range that ends with it.
InRange(bucket, id) ==
    /\ bucket.min_id <= id
    /\ id < bucket.max_id \/ (id = 2^ID_BITS - 1 /\ bucket.max_id = id)

\* Every stored node is in a bucket whose range contains its id.
NodesInRange(buckets) ==
    \A i \in 1..Len(buckets) : \A id \in Range(buckets[i].nodes) : InRange(buckets[i], id)

\* The latest add_node split a bucket and the table holds as many nodes as
\* it did when the split began.
SplitKeepsNodes(table) ==
    table.at_split # -1 => TotalNodes(table.buckets) = table.at_split

\* C37 as stated: after any sequence of add_node calls the buckets are a
\* contiguous partition of 0..2^ID_BITS - 1 in list order, every stored
\* node lies in the bucket whose range contains its id, and a split loses
\* no node.
TableIsPartition ==
    routing # NoTable =>
        /\ Contiguous(routing.buckets)
        /\ NodesInRange(routing.buckets)
        /\ SplitKeepsNodes(routing)

\* ------------------------------------------------- replies that carry nodes

\* A response with nodes whose transaction id is in the table.
NodesForTransaction(m, table) ==
    /\ m.form = "dict"
    /\ Get(m.msg, "y", None) = "r"
    /\ Truthy(Get(m.msg, "t", None))
    /\ Has(Get(m.msg, "r", EmptyDict), "nodes")
    /\ Has(table, m.msg.t)

\* C38 as stated: a response that carries nodes, with or without values,
\* under a registered transaction id schedules no fetch and removes the
\* transaction, whatever the nodes are.
NodesReplyConsumesTransaction ==
    [][NodesForTransaction(last', transactions) =>
          /\ spawned' = <<>>
          /\ ~Has(transactions', last'.msg.t)]_vars

\* ------------------------------------------------- seen means stored

\* The identifiers this step adds to the SeenSet.
NewlySeen == seen_info_hashes' \ seen_info_hashes

\* C39 as stated: an identifier is added to the SeenSet only with its
\* torrent file in the store at that moment, and the counter goes up only
\* for a session whose file was written.
SeenImpliesStored ==
    [][/\ \A h \in NewlySeen : files'[h] # NoFile
       /\ \A t \in TaskIds :
             CompletesValid(t) =>
                 files'[tasks[t].ih] = Bencode(Bdecode(tasks'[t].delivered))]_vars

\* ------------------------------------------------- one assembly per session

\* The slots filled before the latest frame are filled after it.
FilledStayFilled(w) ==
    \A i \in 1..Len(w.before) :
        w.before[i] # Empty => (i <= Len(w.after) /\ w.after[i] # Empty)

\* The latest frame was an extension handshake that reached a session whose
\* assembly was allocated by an earlier one.
RepeatedHandshake(w) ==
    /\ w.task # 0
    /\ w.frame.kind = "ext_handshake"
    /\ w.before # <<>>

\* C40 as stated: a session allocates its assembly once; a filled slot
\* stays filled whatever frame comes next, and a handshake that arrives
\* after the assembly was allocated requests no piece again.
AssemblyAllocatedOnce ==
    /\ wire.task # 0 => FilledStayFilled(wire)
    /\ RepeatedHandshake(wire) => wire.written = <<>>

====
